---------------------------- MODULE Spec2Model ----------------------------
(***************************************************************************)
(* Target-candidate matrix generator: the session state kept by app.py,    *)
(* the handlers that change it (initial generation, add personas, modify,  *)
(* Q&A, reset) and the functions they call (validators, evaluate_matrix,   *)
(* the merge, the client of the model service and its JSON parser).        *)
(*                                                                         *)
(* Encoding of Python values                                               *)
(*   str          a sequence of tokens (Text); "" is << >>; an f-string or *)
(*                join is the concatenation of its parts.  Identifiers     *)
(*                held in dicts (persona id, industry, ...) are tokens.    *)
(*   dict         a function whose DOMAIN is the set of keys present.      *)
(*   list         a sequence.                                              *)
(*   None / value None == << >> and Some(v) == << v >> for session fields. *)
(*   raise        a result record [ok |-> FALSE, err |-> kind].            *)
(* The Japanese literals of the source are written in ASCII:               *)
(*   "persona_id/age" "industry" "job_type" "companies"  header labels of  *)
(*   step4_matrix_evaluation.py:138, ", " the separator of line 157,       *)
(*   "o" "^" the evaluation symbols of config.py:65-70; the keywords of    *)
(*   modification_service.py:182-206 are written in Latin letters.         *)
(***************************************************************************)
EXTENDS Integers, Sequences, FiniteSets, TLC

VARIABLES
    job_description,       \* st.session_state.job_description   (Text)
    step1_result,          \* st.session_state.step1_result      (None | Some(dict))
    personas,              \* st.session_state.personas          (None | Some(list))
    axes,                  \* st.session_state.axes              (None | Some(list))
    matrix,                \* st.session_state.matrix            (None | Some(grid))
    discussion_points,     \* st.session_state.discussion_points (None | Some(Text))
    modification_history,  \* st.session_state.modification_history (list)
    qa_history,            \* st.session_state.qa_history        (list of turns)
    keys,                  \* set(st.session_state.keys())
    last,                  \* observation: the handler that ran last, how it ended and,
                           \* for modify, the answer of the service it merged
    merged,                \* observation: what process_modification_request returned
    call                   \* observation: the last direct function call (SpecFn)

vars == << job_description, step1_result, personas, axes, matrix,
           discussion_points, modification_history, qa_history, keys, last, merged,
           call >>

-----------------------------------------------------------------------------
(* Bounds of the model *)

\* personas the session may hold (add-personas is not offered beyond it)
MaxPersonas == 4
\* entries modification_history may hold (modify is not offered beyond it)
MaxMods == 1
\* length of the persona lists the service may answer with (SpecFn)
MaxReplyLen == 3
\* personas handed to one evaluate_matrix call (SpecFn)
MaxEvalPersonas == 3
\* entries of one delta (persona deltas, cell updates) (SpecFn)
MaxDeltaLen == 2
\* data rows of a matrix handed to sync_matrix_companies_with_personas (SpecFn)
MaxSyncRows == 2
\* largest max_retries handed to generate_with_retry (SpecFn)
MaxAttempts == 3
\* words of a modification request handed to _detect_modification_target (SpecFn)
MaxRequestLen == 2
\* characters of a long answer and of a very long question (SpecQA)
EssayChars == 4000
BookChars == 10000

-----------------------------------------------------------------------------
(* Python values *)

None == << >>
Some(v) == << v >>
Val(o) == o[1]

Ok(v) == [ok |-> TRUE, val |-> v]
Err(e) == [ok |-> FALSE, err |-> e]

\* dict.get(k, default)
Get(d, k, default) == IF k \in DOMAIN d THEN d[k] ELSE default

\* dict.update(other)
Update(d, other) ==
    [k \in DOMAIN d \cup DOMAIN other |-> IF k \in DOMAIN other THEN other[k] ELSE d[k]]

\* a dict without key k (an answer of the model that leaves a field out)
Without(d, k) == [x \in DOMAIN d \ {k} |-> d[x]]

\* sep.join(items), items a list of tokens
RECURSIVE Join(_, _)
Join(items, sep) ==
    IF Len(items) = 0 THEN << >>
    ELSE IF Len(items) = 1 THEN << items[1] >>
    ELSE << items[1], sep >> \o Join(Tail(items), sep)

\* the concatenation of a list of lists (list.extend in a loop)
RECURSIVE Flatten(_)
Flatten(lists) ==
    IF Len(lists) = 0 THEN << >> ELSE lists[1] \o Flatten(Tail(lists))

\* str.strip() leaves nothing
Blank(text) == \A i \in 1..Len(text) : text[i] = " "

\* f"P{n}"
PNames == << "P1", "P2", "P3", "P4", "P5", "P6", "P7", "P8", "P9" >>
PId(n) == PNames[n]

-----------------------------------------------------------------------------
(* config.py *)

DEFAULT_AGE_RANGES == << "25-29", "30-39", "40-49" >>
DEFAULT_NUM_PERSONAS == 3
MIN_COMPANIES == 3
MAX_COMPANIES == 10

-----------------------------------------------------------------------------
(* utils/validators.py : TRUE when the validator returns, FALSE when it raises *)

REQUIRED_PERSONA_KEYS == {"id", "industry", "job_type", "companies"}

validate_persona_keys_only(persona) ==
    REQUIRED_PERSONA_KEYS \subseteq DOMAIN persona

validate_persona(persona) ==
    /\ REQUIRED_PERSONA_KEYS \subseteq DOMAIN persona
    /\ Len(persona["companies"]) >= MIN_COMPANIES
    /\ Len(persona["companies"]) <= MAX_COMPANIES

\* every caller passes expected_count
validate_personas(ps, expected_count) ==
    /\ Len(ps) = expected_count
    /\ \A i \in 1..Len(ps) : validate_persona(ps[i])

validate_axes(as) ==
    /\ Len(as) > 0
    /\ \A i \in 1..Len(as) : {"category", "item"} \subseteq DOMAIN as[i]

validate_matrix_no_row_check(m, expected_rows) ==
    /\ Len(m) > 0
    /\ \A i \in 2..Len(m) : Len(m[i]) = Len(m[1])

validate_matrix(m, expected_rows) ==
    /\ Len(m) > 0
    /\ Len(m) = expected_rows + 1
    /\ \A i \in 2..Len(m) : Len(m[i]) = Len(m[1])

validate_discussion_points(text) == ~Blank(text)

validate_step1_result(result) ==
    {"job_title", "key_skills", "job_domain", "role"} \subseteq DOMAIN result


-----------------------------------------------------------------------------
(* An answer of the text-generation service, as the steps see it:          *)
(* generate_json returns a dict or raises, generate returns text or raises *)

LlmFail == [ok |-> FALSE]
LlmJson(d) == [ok |-> TRUE, json |-> d]
LlmText(t) == [ok |-> TRUE, text |-> t]
EmptyDict == [k \in {} |-> << >>]

-----------------------------------------------------------------------------
(* utils/llm_client.py.  One call of the service either raises an error    *)
(* [class, msg] or returns a finish_reason and a content (None or text).   *)

MAX_RETRIES == 3
RETRY_DELAY == 2

Raised(class, msg) == [raises |-> TRUE, error |-> [class |-> class, msg |-> msg]]
Returned(finish_reason, content) ==
    [raises |-> FALSE, finish_reason |-> finish_reason, content |-> content]

\* line 90
EmptyResponseError(finish_reason) ==
    [class |-> "Exception", msg |-> <<"empty response, finish_reason: ", finish_reason>>]
\* line 190
RateLimitAbort == [class |-> "Exception", msg |-> <<"aborted by the rate limit of the API">>]
\* line 201
UnexpectedError == [class |-> "Exception", msg |-> <<"unexpected: retries exhausted">>]

generate_truncation_fatal(response) ==
    IF response.raises THEN Err(response.error)
    ELSE IF response.finish_reason = "length" \/ response.content = None
            \/ Blank(Val(response.content))
         THEN Err(EmptyResponseError(response.finish_reason))
         ELSE Ok(Val(response.content))

\* LLMClient.generate, lines 53-100
generate(response) ==
    IF response.raises THEN Err(response.error)
    ELSE LET finish_reason == response.finish_reason
             result == response.content
         IN IF finish_reason = "length" /\ result # None /\ ~Blank(Val(result))
            THEN Ok(Val(result))
            ELSE IF result = None \/ Blank(Val(result))
                 THEN Err(EmptyResponseError(finish_reason))
                 ELSE Ok(Val(result))

\* str.lower() on the tokens of a message
Lower(token) == IF token = "RATE_LIMIT" THEN "rate_limit" ELSE token

\* "rate_limit" in error_msg.lower(), line 182
IsRateLimit(msg) == \E i \in 1..Len(msg) : Lower(msg[i]) = "rate_limit"

RECURSIVE Pow2(_)
Pow2(n) == IF n = 0 THEN 1 ELSE 2 * Pow2(n - 1)

BackoffWait_fixed(attempt) == RETRY_DELAY

\* wait_time = 2 ** attempt, line 184
BackoffWait(attempt) == Pow2(attempt)

\* the loop of generate_with_retry from one attempt on, lines 169-201;
\* responses[attempt + 1] is what the service does at that attempt, waits the
\* arguments of time.sleep so far
RECURSIVE RetryFrom(_, _, _, _)
RetryFrom(responses, max_retries, attempt, waits) ==
    IF attempt >= max_retries
    THEN [result |-> Err(UnexpectedError), calls |-> attempt, waits |-> waits]
    ELSE LET g == generate(responses[attempt + 1]) IN
         IF g.ok THEN [result |-> g, calls |-> attempt + 1, waits |-> waits]
         ELSE IF IsRateLimit(g.err.msg)
              THEN IF attempt < max_retries - 1
                   THEN RetryFrom(responses, max_retries, attempt + 1,
                                  Append(waits, BackoffWait(attempt)))
                   ELSE [result |-> Err(RateLimitAbort), calls |-> attempt + 1,
                         waits |-> waits]
              ELSE IF attempt < max_retries - 1
                   THEN RetryFrom(responses, max_retries, attempt + 1,
                                  Append(waits, RETRY_DELAY))
                   ELSE [result |-> g, calls |-> attempt + 1, waits |-> waits]

\* LLMClient.generate_with_retry; max_retries is None or Some(k)
generate_with_retry(responses, max_retries) ==
    RetryFrom(responses, IF max_retries = None THEN MAX_RETRIES ELSE Val(max_retries),
              0, << >>)

\* list.index(x) and str.find(x) as a 1-based position, 0 when it raises ValueError
IndexOf(list, x) ==
    LET hits == {i \in 1..Len(list) : list[i] = x} IN
    IF hits = {} THEN 0 ELSE CHOOSE i \in hits : \A j \in hits : i <= j

\* str.strip()
RECURSIVE Strip(_)
Strip(text) ==
    IF Len(text) = 0 THEN text
    ELSE IF text[1] = " " THEN Strip(Tail(text))
    ELSE IF text[Len(text)] = " " THEN Strip(SubSeq(text, 1, Len(text) - 1))
    ELSE text

\* A text is a sequence of tokens.  The tokens of a JSON document are the
\* braces, the quote, the backslash, the blank, the member tokens that may
\* stand inside an object (a key with its value, a separator), and the number.
\* Every other token (a word of prose, a code fence) is no JSON.  The double
\* quote is written as an apostrophe, the fence of three backquotes as ~~~.
Quote == "'"
Backslash == "\\"
MemberTokens == { "analysis", "a", "b", "k", ":", "," }
NumberTokens == { "1" }
FenceJson == "~~~json"
Fence == "~~~"
FencePy == "~~~py"
JsonText(name) == << "{", name, "}" >>

\* json scanner: the position of the quote that closes the string whose
\* content starts at i, 0 when the string is not terminated
RECURSIVE StringEnd(_, _)
StringEnd(text, i) ==
    IF i > Len(text) THEN 0
    ELSE IF text[i] = Backslash THEN StringEnd(text, i + 2)
    ELSE IF text[i] = Quote THEN i
    ELSE StringEnd(text, i + 1)

\* json scanner: the position of the brace that closes the object opened
\* before i at the given depth, 0 when the tokens up to there are no JSON
RECURSIVE ObjectEnd(_, _, _)
ObjectEnd(text, i, depth) ==
    IF i > Len(text) THEN 0
    ELSE IF text[i] = Quote
         THEN LET e == StringEnd(text, i + 1) IN
              IF e = 0 THEN 0 ELSE ObjectEnd(text, e + 1, depth)
    ELSE IF text[i] = "{" THEN ObjectEnd(text, i + 1, depth + 1)
    ELSE IF text[i] = "}"
         THEN IF depth = 1 THEN i ELSE ObjectEnd(text, i + 1, depth - 1)
    ELSE IF text[i] \in MemberTokens \cup NumberTokens \cup {" "}
         THEN ObjectEnd(text, i + 1, depth)
    ELSE 0

\* JSONDecoder.raw_decode(s): the first document of s, which must start at
\* the first token, and the position where it ends
raw_decode(s) ==
    LET e == IF Len(s) = 0 THEN 0
             ELSE IF s[1] = "{" THEN ObjectEnd(s, 2, 1)
             ELSE IF s[1] = Quote THEN StringEnd(s, 2)
             ELSE IF s[1] \in NumberTokens THEN 1
             ELSE 0 IN
    IF e = 0 THEN Err([class |-> "JSONDecodeError", msg |-> <<"Expecting value">>])
    ELSE Ok([obj |-> SubSeq(s, 1, e), end |-> e])

\* the number of blanks s starts with
RECURSIVE LeadingBlanks(_)
LeadingBlanks(s) ==
    IF Len(s) = 0 \/ s[1] # " " THEN 0 ELSE 1 + LeadingBlanks(Tail(s))

\* json.loads(s): one document with blanks around it and nothing else
json_loads(s) ==
    LET k == LeadingBlanks(s)
        body == SubSeq(s, k + 1, Len(s))
        d == raw_decode(body) IN
    IF ~d.ok THEN d
    ELSE IF Strip(SubSeq(body, d.val.end + 1, Len(body))) # << >>
    THEN Err([class |-> "JSONDecodeError", msg |-> <<"Extra data">>])
    ELSE Ok(d.val.obj)

\* _parse_json, lines 256-276: the end of the first balanced brace block of
\* the text from position i on, 0 when the braces never balance
RECURSIVE BlockEnd(_, _, _, _, _)
BlockEnd(text, i, depth, in_string, escape) ==
    IF i > Len(text) THEN 0
    ELSE LET ch == text[i] IN
         IF ch = Backslash /\ ~escape THEN BlockEnd(text, i + 1, depth, in_string, TRUE)
         ELSE LET s == IF ch = Quote /\ ~escape THEN ~in_string ELSE in_string
                  d == IF s THEN depth
                       ELSE IF ch = "{" THEN depth + 1
                       ELSE IF ch = "}" THEN depth - 1
                       ELSE depth IN
              IF ~s /\ ch = "}" /\ d = 0 THEN i
              ELSE BlockEnd(text, i + 1, d, s, FALSE)

\* _parse_json, lines 252-280: the last resort, the first "{" of the
\* original text up to the brace that balances it, decoded
BraceBlock(original_text) ==
    LET start == IndexOf(original_text, "{")
        e == IF start = 0 THEN 0 ELSE BlockEnd(original_text, start, 0, FALSE, FALSE) IN
    IF e = 0 THEN Err([class |-> "Exception", msg |-> <<"JSON parse failed">>])
    ELSE json_loads(SubSeq(original_text, start, e))

\* _parse_json, lines 238-249: the text without its code fence
Unfenced(response_text) ==
    LET cleaned == Strip(response_text)
        opened == IF cleaned # << >> /\ cleaned[1] = FenceJson THEN Tail(cleaned)
                  ELSE IF cleaned # << >> /\ cleaned[1] = Fence THEN Tail(cleaned)
                  ELSE IF cleaned # << >> /\ cleaned[1] = FencePy
                  THEN <<"py">> \o Tail(cleaned)
                  ELSE cleaned
        closed == IF opened # << >> /\ opened[Len(opened)] = Fence
                  THEN SubSeq(opened, 1, Len(opened) - 1)
                  ELSE opened IN
    Strip(closed)

\* the record a decoded document stands for
Decoded(obj) ==
    IF obj = JsonText("analysis")
    THEN [job_title |-> <<"title">>, key_skills |-> << <<"skill">> >>,
          job_domain |-> <<"domain">>, role |-> <<"role">>]
    ELSE [json |-> obj]

\* _parse_json, lines 224-287: the loop over the attempts
RECURSIVE ParseFrom(_, _, _, _)
ParseFrom(original_text, response_text, attempt, max_retries) ==
    IF attempt >= max_retries
    THEN Err([class |-> "Exception", msg |-> <<"JSON parse failed", "unexpected">>])
    ELSE LET whole == json_loads(response_text)
             first == raw_decode(response_text) IN
         IF whole.ok THEN Ok(Decoded(whole.val))
         ELSE IF whole.err.msg = <<"Extra data">> /\ first.ok
         THEN Ok(Decoded(first.val.obj))
         ELSE IF attempt < max_retries - 1
         THEN ParseFrom(original_text, Unfenced(response_text), attempt + 1, max_retries)
         ELSE LET block == BraceBlock(original_text) IN
              IF block.ok THEN Ok(Decoded(block.val))
              ELSE Err([class |-> "Exception", msg |-> <<"JSON parse failed">>])

\* LLMClient._parse_json with its default of three attempts
parse_json(response_text) == ParseFrom(response_text, response_text, 0, 3)

\* LLMClient.generate_json, lines 132-140: one call of generate, then the parse
generate_json(response) ==
    LET g == generate(response) IN
    IF ~g.ok THEN g ELSE parse_json(g.val)

\* the answer a step sees when its call of generate_json meets the responses
\* of the service: the call is issued once
ReplyOf(responses) ==
    LET r == generate_json(responses[1]) IN
    IF r.ok THEN [ok |-> TRUE, json |-> r.val] ELSE [ok |-> FALSE]

-----------------------------------------------------------------------------
(* core/step1_job_analysis.py *)

analyze(reply, logOk) ==
    IF ~reply.ok THEN Err("llm")
    ELSE IF ~validate_step1_result(reply.json) THEN Err("ValueError")
    ELSE IF ~logOk THEN Err("OSError")
    ELSE Ok(reply.json)

-----------------------------------------------------------------------------
(* core/step2_persona_generation.py *)

generate_personas(reply, num_personas) ==
    IF ~reply.ok THEN Err("llm")
    ELSE LET ps == Get(reply.json, "personas", << >>) IN
         IF validate_personas(ps, num_personas) THEN Ok(ps) ELSE Err("ValueError")

\* the ids given to new personas: P{start_id + i}, start_id = len(existing) + 1
Renumber(new_personas, existing_personas) ==
    LET start_id == Len(existing_personas) + 1 IN
    [i \in 1..Len(new_personas) |->
        Update(new_personas[i], [id |-> PId(start_id + (i - 1))])]

generate_additional_personas(reply, existing_personas, additional_count) ==
    IF ~reply.ok THEN Err("llm")
    ELSE LET new_personas == Renumber(Get(reply.json, "personas", << >>), existing_personas) IN
         IF validate_personas(new_personas, additional_count)
         THEN Ok(new_personas) ELSE Err("ValueError")

-----------------------------------------------------------------------------
(* core/step3_axes_generation.py *)

generate_axes(reply) ==
    IF ~reply.ok THEN Err("llm")
    ELSE LET as == Get(reply.json, "axes", << >>) IN
         IF validate_axes(as) THEN Ok(as) ELSE Err("ValueError")

update_axes_replacing(reply, existing_axes) ==
    IF ~reply.ok THEN existing_axes
    ELSE IF Get(reply.json, "needs_update", FALSE)
         THEN Get(reply.json, "additional_axes", << >>)
         ELSE existing_axes

\* never raises: every failure returns the existing axes
update_axes(reply, existing_axes) ==
    IF ~reply.ok THEN existing_axes
    ELSE IF Get(reply.json, "needs_update", FALSE)
         THEN existing_axes \o Get(reply.json, "additional_axes", << >>)
         ELSE existing_axes

-----------------------------------------------------------------------------
(* core/step4_matrix_evaluation.py *)

BaseHeader == << <<"persona_id/age">>, <<"industry">>, <<"job_type">>, <<"companies">> >>

\* f"{axis['category']} - {axis['item']}"  (KeyError when a key is missing)
AxisWellFormed(axis) == {"category", "item"} \subseteq DOMAIN axis
ColumnName(axis) == << axis["category"], " - ", axis["item"] >>

\* row_data.get('companies', ''): a list is joined, a str is kept
CompaniesCell(row_data) ==
    LET c == Get(row_data, "companies", [kind |-> "str", text |-> << >>]) IN
    IF c.kind = "list" THEN Join(c.items, ", ") ELSE c.text

ConvertRow(row_data, as) ==
    << Get(row_data, "persona_id", << >>) \o <<"/">> \o Get(row_data, "age_range", << >>),
       Get(row_data, "industry", << >>),
       Get(row_data, "job_type", << >>),
       CompaniesCell(row_data) >>
    \o [i \in 1..Len(as) |->
            Get(Get(row_data, "evaluations", EmptyDict), ColumnName(as[i]), << >>)]

convert_to_2d_list(matrix_data, ps, as, age_ranges) ==
    << BaseHeader \o [i \in 1..Len(as) |-> ColumnName(as[i])] >>
    \o [r \in 1..Len(matrix_data) |-> ConvertRow(matrix_data[r], as)]

\* replies[i] is the answer to the call issued for ps[i]
evaluate_matrix(ps, as, replies, age_ranges) ==
    IF \E i \in 1..Len(ps) : ~replies[i].ok THEN Err("llm")
    ELSE IF \E i \in 1..Len(as) : ~AxisWellFormed(as[i]) THEN Err("KeyError")
    ELSE LET all_matrix_data ==
                 Flatten([i \in 1..Len(ps) |-> Get(replies[i].json, "matrix", << >>)])
             m == convert_to_2d_list(all_matrix_data, ps, as, age_ranges)
         IN IF validate_matrix(m, Len(ps) * Len(age_ranges)) THEN Ok(m) ELSE Err("ValueError")

-----------------------------------------------------------------------------
(* core/step4_5_self_review.py *)

ReviewDefault ==
    [has_issues |-> FALSE, issues |-> << >>,
     overall_quality |-> <<"review failed">>, confidence_score |-> <<"0.5">>]

review_flagging(reply) ==
    IF ~reply.ok THEN [ReviewDefault EXCEPT !["has_issues"] = TRUE] ELSE reply.json

\* never raises
review(reply) == IF ~reply.ok THEN ReviewDefault ELSE reply.json

\* records each suggested fix in the log; the returned grid has the same cells
apply_fixes(m, review_result) == m

-----------------------------------------------------------------------------
(* core/step5_discussion.py *)

extract_discussion_points(reply) ==
    IF ~reply.ok THEN Err("llm")
    ELSE IF ~validate_discussion_points(reply.text) THEN Err("ValueError")
    ELSE Ok(reply.text)

-----------------------------------------------------------------------------
(* utils/matrix_sync.py *)

IdLabel == <<"persona_id/age">>
CompaniesLabel == <<"companies">>

\* cell.split("/", 1)[0]
BeforeSlash(text) ==
    LET k == IndexOf(text, "/") IN
    IF k = 0 THEN text ELSE SubSeq(text, 1, k - 1)

PersonaCompanies_or_empty(ps, persona_id) ==
    LET hits == {i \in 1..Len(ps) : Get(ps[i], "id", "") # ""
                                     /\ persona_id = << ps[i]["id"] >>} IN
    IF hits = {} THEN Some(<< >>)
    ELSE Some(Get(ps[CHOOSE i \in hits : \A j \in hits : j <= i], "companies", << >>))

\* lines 28-33 and 45: persona_companies.get(persona_id); a later persona with
\* the same id overwrites an earlier one, a persona without id is left out
PersonaCompanies(ps, persona_id) ==
    LET hits == {i \in 1..Len(ps) : Get(ps[i], "id", "") # ""
                                     /\ persona_id = << ps[i]["id"] >>} IN
    IF hits = {} THEN None
    ELSE Some(Get(ps[CHOOSE i \in hits : \A j \in hits : j <= i], "companies", << >>))

SyncRow_appending(row, id_col, companies_col, ps) ==
    IF Len(row) < (IF id_col > companies_col THEN id_col ELSE companies_col) THEN row
    ELSE LET persona_id == Strip(BeforeSlash(row[id_col])) IN
         IF persona_id = << >> THEN row
         ELSE LET companies == PersonaCompanies(ps, persona_id) IN
              IF companies = None THEN row
              ELSE [row EXCEPT ![companies_col] = @ \o Join(Val(companies), ", ")]

\* lines 36-55, one row; id_col and companies_col are 1-based
SyncRow(row, id_col, companies_col, ps) ==
    IF Len(row) < (IF id_col > companies_col THEN id_col ELSE companies_col) THEN row
    ELSE LET persona_id == Strip(BeforeSlash(row[id_col])) IN
         IF persona_id = << >> THEN row
         ELSE LET companies == PersonaCompanies(ps, persona_id) IN
              IF companies = None THEN row
              ELSE [row EXCEPT ![companies_col] = Join(Val(companies), ", ")]

sync_matrix_companies_with_personas(m, ps) ==
    IF Len(m) < 2 THEN m
    ELSE LET id_col == IndexOf(m[1], IdLabel)
             companies_col == IndexOf(m[1], CompaniesLabel)
         IN IF id_col = 0 \/ companies_col = 0 THEN m
            ELSE [r \in 1..Len(m) |->
                    IF r = 1 THEN m[1] ELSE SyncRow(m[r], id_col, companies_col, ps)]

-----------------------------------------------------------------------------
(* services/modification_service.py *)

\* list[i] with Python's index rule: 0-based, negative counts from the end;
\* PyIndex is the 1-based position, 0 when the access raises IndexError
PyIndex(len, i) ==
    IF i >= 0 /\ i < len THEN i + 1
    ELSE IF i < 0 /\ i >= -len THEN len + i + 1
    ELSE 0

\* update.get('value') of an update without value
PyNoneCell == <<"None">>

\* the truth value of update.get(key): a missing key and 0 are both false
Truthy(update, key) == key \in DOMAIN update /\ update[key] # 0

ApplyPersonaDelta_appending(ps, mod_p) ==
    LET hits == {i \in 1..Len(ps) : ps[i]["id"] = mod_p["id"]} IN
    IF hits = {} THEN Append(ps, mod_p)
    ELSE LET first == CHOOSE i \in hits : \A j \in hits : i <= j IN
         [ps EXCEPT ![first] = Update(ps[first], mod_p)]

ApplyPersonaDelta_replacing(ps, mod_p) ==
    LET hits == {i \in 1..Len(ps) : ps[i]["id"] = mod_p["id"]} IN
    IF hits = {} THEN ps
    ELSE LET first == CHOOSE i \in hits : \A j \in hits : i <= j IN
         [ps EXCEPT ![first] = mod_p]

\* lines 313-320: the first persona with the delta's id takes the delta's fields
ApplyPersonaDelta(ps, mod_p) ==
    LET hits == {i \in 1..Len(ps) : ps[i]["id"] = mod_p["id"]} IN
    IF hits = {} THEN ps
    ELSE LET first == CHOOSE i \in hits : \A j \in hits : i <= j IN
         [ps EXCEPT ![first] = Update(ps[first], mod_p)]

\* lines 307-320; mod_p['id'] raises KeyError as soon as a persona is compared
RECURSIVE MergePersonas(_, _)
MergePersonas(ps, modified_personas) ==
    IF Len(modified_personas) = 0 THEN Ok(ps)
    ELSE LET mod_p == Head(modified_personas) IN
         IF "id" \notin DOMAIN mod_p /\ Len(ps) > 0 THEN Err("KeyError")
         ELSE IF "id" \notin DOMAIN mod_p THEN MergePersonas(ps, Tail(modified_personas))
         ELSE MergePersonas(ApplyPersonaDelta(ps, mod_p), Tail(modified_personas))

\* lines 332-338
RECURSIVE MergeCells(_, _)
MergeCells(m, cell_updates) ==
    IF Len(cell_updates) = 0 THEN Ok(m)
    ELSE LET update == Head(cell_updates)
             new_value == Get(update, "value", PyNoneCell)
         IN IF Truthy(update, "row_index") /\ Truthy(update, "col_index")
               /\ update["row_index"] < Len(m)
            THEN LET r == PyIndex(Len(m), update["row_index"]) IN
                 IF r = 0 THEN Err("IndexError")
                 ELSE LET c == PyIndex(Len(m[r]), update["col_index"]) IN
                      IF c = 0 THEN Err("IndexError")
                      ELSE MergeCells([m EXCEPT ![r][c] = new_value], Tail(cell_updates))
            ELSE MergeCells(m, Tail(cell_updates))

\* current_data is the dict {personas, axes, matrix}; the result is a deep copy
\* of it with the delta merged (and discussion_points when the delta sets it)
apply_modifications(modification_type, modified_data, current_data) ==
    IF modification_type = "personas" THEN
        LET r == MergePersonas(current_data["personas"], Get(modified_data, "personas", << >>)) IN
        IF r.ok THEN Ok([current_data EXCEPT !["personas"] = r.val]) ELSE r
    ELSE IF modification_type = "axes" THEN
        IF "axes" \in DOMAIN modified_data
        THEN Ok([current_data EXCEPT !["axes"] = modified_data["axes"]])
        ELSE Ok(current_data)
    ELSE IF modification_type = "matrix_cells" THEN
        LET r == MergeCells(current_data["matrix"], Get(modified_data, "cell_updates", << >>)) IN
        IF r.ok THEN Ok([current_data EXCEPT !["matrix"] = r.val]) ELSE r
    ELSE IF modification_type = "discussion_points" THEN
        IF "discussion_points" \in DOMAIN modified_data
        THEN Ok(Update(current_data, [discussion_points |-> modified_data["discussion_points"]]))
        ELSE Ok(current_data)
    ELSE Ok(current_data)

\* kw in request: the keyword is a contiguous part of the request.  A request
\* is a sequence of words; the Japanese keywords are written in Latin letters,
\* a compound one (bunseki-jiku, shiyou-gijutsu, keiken-rei) as its two words
Contains(request, kw) ==
    \E i \in 1..Len(request) :
        i + Len(kw) - 1 <= Len(request) /\ SubSeq(request, i, i + Len(kw) - 1) = kw

persona_keywords ==
    { <<"kigyou">>, <<"persona">>, <<"gyoukai">>, <<"shokushu">>, <<"companies">>,
      <<"kouho">> }
axes_keywords ==
    { <<"bunseki", "jiku">>, <<"jiku">>, <<"category">>, <<"flow">>, <<"yakuwari">>,
      <<"shiyou", "gijutsu">>, <<"keiken", "rei">> }
matrix_keywords ==
    { <<"hyouka">>, <<"matrix">>, <<"maru">>, <<"sankaku">>, <<"kurosankaku">>,
      <<"cell">>, <<"gyou">>, <<"retsu">> }
discussion_keywords ==
    { <<"ronten">>, <<"discussion">>, <<"giron">>, <<"kakunin">> }

AnyKeyword(keywords, request) == \E kw \in keywords : Contains(request, kw)

detect_modification_target_axes_first(request) ==
    IF AnyKeyword(axes_keywords, request)
    THEN [type |-> "axes", constraints |-> <<"categories", "20-30 axes">>]
    ELSE IF AnyKeyword(persona_keywords, request)
    THEN [type |-> "personas", constraints |-> <<"3-10 companies", "keep ids">>]
    ELSE IF AnyKeyword(matrix_keywords, request)
    THEN [type |-> "matrix_cells", constraints |-> <<"marks", "name persona and axis">>]
    ELSE IF AnyKeyword(discussion_keywords, request)
    THEN [type |-> "discussion_points", constraints |-> <<"3 points", "Markdown">>]
    ELSE [type |-> "general", constraints |-> <<"keep the structure">>]

\* ModificationService._detect_modification_target, lines 169-218
detect_modification_target(request) ==
    IF AnyKeyword(persona_keywords, request)
    THEN [type |-> "personas", constraints |-> <<"3-10 companies", "keep ids">>]
    ELSE IF AnyKeyword(axes_keywords, request)
    THEN [type |-> "axes", constraints |-> <<"categories", "20-30 axes">>]
    ELSE IF AnyKeyword(matrix_keywords, request)
    THEN [type |-> "matrix_cells", constraints |-> <<"marks", "name persona and axis">>]
    ELSE IF AnyKeyword(discussion_keywords, request)
    THEN [type |-> "discussion_points", constraints |-> <<"3 points", "Markdown">>]
    ELSE [type |-> "general", constraints |-> <<"keep the structure">>]

process_modification_request(request, current_data, reply, logOk) ==
    IF ~reply.ok THEN Err("llm")
    ELSE LET modification_type == Get(reply.json, "modification_type", "general")
             modified_data == Get(reply.json, "modified_data", EmptyDict)
             change_summary == Get(reply.json, "change_summary", <<"unknown">>)
             updated == apply_modifications(modification_type, modified_data, current_data)
         IN IF ~updated.ok THEN updated
            ELSE IF ~logOk THEN Err("OSError")
            ELSE Ok([modified_data |-> updated.val, change_summary |-> change_summary])

-----------------------------------------------------------------------------
(* What the text-generation service may answer.  The service is outside    *)
(* the program: every answer below is one the steps accept as input.       *)

CompanyNames == << "c1", "c2", "c3", "c4", "c5", "c6", "c7", "c8", "c9", "c10", "c11" >>
Companies(n) == SubSeq(CompanyNames, 1, n)
OtherCompanies(n) == SubSeq(<< "k1", "k2", "k3", "k4", "k5", "k6", "k7", "k8", "k9", "k10", "k11" >>, 1, n)
Industries == << "ind1", "ind2", "ind3", "ind4", "ind5", "ind6", "ind7", "ind8", "ind9" >>
JobTypes == << "job1", "job2", "job3", "job4", "job5", "job6", "job7", "job8", "job9" >>

\* a persona as step 2 is asked to produce it, numbered n by the service
Persona(n, companies) ==
    [id |-> PId(n), industry |-> Industries[n], job_type |-> JobTypes[n],
     companies |-> companies]

\* three personas numbered first, first+1, first+2
Trio(first) == [i \in 1..3 |-> Persona(first + (i - 1), Companies(3))]

Analysis ==
    [job_title |-> <<"title">>, key_skills |-> << <<"skill">> >>,
     job_domain |-> <<"domain">>, role |-> <<"role">>]

Axis(n) == [category |-> "flow", item |-> Industries[n]]
AxesOf(n) == [i \in 1..n |-> Axis(i)]

\* one matrix answer per persona: the block of row records for that persona
BlockShapes == {"exact", "short", "long", "alien"}

RowData(idText, age, persona, as) ==
    [persona_id |-> idText, age_range |-> << age >>,
     industry |-> << Get(persona, "industry", "N/A") >>,
     job_type |-> << Get(persona, "job_type", "N/A") >>,
     companies |-> [kind |-> "list", items |-> Get(persona, "companies", << >>)],
     evaluations |-> [c \in {ColumnName(as[i]) : i \in {j \in 1..Len(as) : AxisWellFormed(as[j])}}
                        |-> <<"o">>]]

Block(shape, persona, as) ==
    LET A == Len(DEFAULT_AGE_RANGES)
        own == [a \in 1..A |-> RowData(<< Get(persona, "id", "N/A") >>, DEFAULT_AGE_RANGES[a], persona, as)]
    IN CASE shape = "exact" -> own
         [] shape = "short" -> SubSeq(own, 1, A - 1)
         [] shape = "long"  -> own \o << own[1] >>
         [] shape = "alien" -> [a \in 1..A |-> RowData(<<"PX">>, DEFAULT_AGE_RANGES[1], persona, as)]

MatrixReply(shape, persona, as) ==
    IF shape = "fail" THEN LlmFail ELSE LlmJson([matrix |-> Block(shape, persona, as)])

MatrixReplies(shapes, ps, as) == [i \in 1..Len(ps) |-> MatrixReply(shapes[i], ps[i], as)]

Issue == [location |-> <<"P1">>, description |-> <<"d">>, suggested_fix |-> <<"^">>]
ReviewReplies ==
    { LlmFail,
      LlmJson([has_issues |-> TRUE, issues |-> << Issue >>]),
      LlmJson([has_issues |-> FALSE, issues |-> << >>]) }

-----------------------------------------------------------------------------
(* services/qa_service.py *)

QA_HISTORY_MAX_ITEMS == 10
QA_HISTORY_MAX_CHARS == 10000

\* len(text): a word is a run of characters, "essay" and "book" long ones
CharsOfWord(word) ==
    IF word = "essay" THEN EssayChars
    ELSE IF word = "book" THEN BookChars
    ELSE IF word = " " THEN 1
    ELSE 5
RECURSIVE Chars(_)
Chars(text) == IF Len(text) = 0 THEN 0 ELSE CharsOfWord(Head(text)) + Chars(Tail(text))

\* len(json.dumps(item, ensure_ascii=False)): the braces, keys, quotes and
\* separators of {"q": "...", "a": "..."} are 18 characters
DumpChars(item) == 18 + Chars(Get(item, "q", << >>)) + Chars(Get(item, "a", << >>))
RECURSIVE TotalChars(_)
TotalChars(trimmed) ==
    IF Len(trimmed) = 0 THEN 0 ELSE DumpChars(Head(trimmed)) + TotalChars(Tail(trimmed))

\* history[-max_items:]
LastItems(history, max_items) ==
    IF Len(history) <= max_items THEN history
    ELSE SubSeq(history, Len(history) - max_items + 1, Len(history))

\* lines 136-138: while total > max_chars and trimmed: trimmed.pop(0)
RECURSIVE PopWhileOver(_, _)
PopWhileOver(trimmed, max_chars) ==
    IF TotalChars(trimmed) > max_chars /\ Len(trimmed) > 0
    THEN PopWhileOver(Tail(trimmed), max_chars)
    ELSE trimmed

trim_qa_history_items_only(history) ==
    IF Len(history) = 0 THEN [list |-> << >>, is_argument |-> FALSE]
    ELSE [list |-> LastItems(history, QA_HISTORY_MAX_ITEMS), is_argument |-> FALSE]

\* QAService._trim_qa_history, lines 115-140.  The list returned is a new
\* object in both branches (a literal, line 126; a slice, line 132)
trim_qa_history(history) ==
    IF Len(history) = 0 THEN [list |-> << >>, is_argument |-> FALSE]
    ELSE [list |-> PopWhileOver(LastItems(history, QA_HISTORY_MAX_ITEMS),
                                QA_HISTORY_MAX_CHARS),
          is_argument |-> FALSE]

\* QAService.answer_question, lines 24-113: result is what the call returns
\* or raises, history_argument what the caller's list holds afterwards
answer_question(question, history, response, logOk) ==
    LET before == trim_qa_history(history)
        answer == generate(response) IN
    IF ~answer.ok THEN [result |-> answer, history_argument |-> history]
    ELSE LET new_entry == [q |-> question, a |-> Strip(answer.val)]
             appended == Append(before.list, new_entry)
             after == trim_qa_history(appended)
             argument == IF before.is_argument THEN appended ELSE history
         IN IF ~logOk THEN [result |-> Err("OSError"), history_argument |-> argument]
            ELSE [result |-> Ok([answer |-> Strip(answer.val),
                                 updated_history |-> after.list]),
                  history_argument |-> argument]

-----------------------------------------------------------------------------
(* app.py: the handlers, as functions of the session and of the answers *)

\* one stage of a run: its name and whether it returned
Ran(stage, ok) == [stage |-> stage, ok |-> ok]

generate_initial_matrix_continuing(S, in) ==
    LET a == analyze(in.step1, in.logOk)
        r1 == << Ran("analyze", a.ok) >> IN
    IF ~a.ok THEN [S |-> S, outcome |-> "step1_failed", ran |-> r1] ELSE
    LET S1 == [S EXCEPT !.step1_result = Some(a.val)]
        p == generate_personas(in.personas, DEFAULT_NUM_PERSONAS)
        r2 == Append(r1, Ran("generate_personas", p.ok)) IN
    IF ~p.ok THEN [S |-> S1, outcome |-> "step2_failed", ran |-> r2] ELSE
    LET S2 == [S1 EXCEPT !.personas = Some(p.val)]
        x == generate_axes(in.axes)
        r3 == Append(r2, Ran("generate_axes", x.ok)) IN
    LET xs == IF x.ok THEN x.val ELSE << >>
        S3 == [S2 EXCEPT !.axes = Some(xs)]
        m == evaluate_matrix(p.val, xs, MatrixReplies(in.shapes, p.val, xs),
                             DEFAULT_AGE_RANGES)
        r4 == Append(r3, Ran("evaluate_matrix", m.ok)) IN
    IF ~m.ok THEN [S |-> S3, outcome |-> "step4_failed", ran |-> r4] ELSE
    LET review_result == review(in.review)
        fix == Get(review_result, "has_issues", FALSE)
        m2 == IF fix THEN apply_fixes(m.val, review_result) ELSE m.val
        r5 == Append(r4, Ran("review", TRUE))
                 \o (IF fix THEN << Ran("apply_fixes", TRUE) >> ELSE << >>)
        S4 == [S3 EXCEPT !.matrix = Some(m2)]
        d == extract_discussion_points(in.discussion)
        r6 == Append(r5, Ran("extract_discussion_points", d.ok)) IN
    IF ~d.ok THEN [S |-> S4, outcome |-> "step5_failed", ran |-> r6]
    ELSE [S |-> [S4 EXCEPT !.discussion_points = Some(d.val)], outcome |-> "ok",
          ran |-> r6]

generate_initial_matrix_restoring(S, in) ==
    LET a == analyze(in.step1, in.logOk)
        r1 == << Ran("analyze", a.ok) >> IN
    IF ~a.ok THEN [S |-> S, outcome |-> "step1_failed", ran |-> r1] ELSE
    LET S1 == [S EXCEPT !.step1_result = Some(a.val)]
        p == generate_personas(in.personas, DEFAULT_NUM_PERSONAS)
        r2 == Append(r1, Ran("generate_personas", p.ok)) IN
    IF ~p.ok THEN [S |-> S, outcome |-> "step2_failed", ran |-> r2] ELSE
    LET S2 == [S1 EXCEPT !.personas = Some(p.val)]
        x == generate_axes(in.axes)
        r3 == Append(r2, Ran("generate_axes", x.ok)) IN
    IF ~x.ok THEN [S |-> S, outcome |-> "step3_failed", ran |-> r3] ELSE
    LET S3 == [S2 EXCEPT !.axes = Some(x.val)]
        m == evaluate_matrix(p.val, x.val, MatrixReplies(in.shapes, p.val, x.val),
                             DEFAULT_AGE_RANGES)
        r4 == Append(r3, Ran("evaluate_matrix", m.ok)) IN
    IF ~m.ok THEN [S |-> S, outcome |-> "step4_failed", ran |-> r4] ELSE
    LET review_result == review(in.review)
        fix == Get(review_result, "has_issues", FALSE)
        m2 == IF fix THEN apply_fixes(m.val, review_result) ELSE m.val
        r5 == Append(r4, Ran("review", TRUE))
                 \o (IF fix THEN << Ran("apply_fixes", TRUE) >> ELSE << >>)
        S4 == [S3 EXCEPT !.matrix = Some(m2)]
        d == extract_discussion_points(in.discussion)
        r6 == Append(r5, Ran("extract_discussion_points", d.ok)) IN
    IF ~d.ok THEN [S |-> S, outcome |-> "step5_failed", ran |-> r6]
    ELSE [S |-> [S4 EXCEPT !.discussion_points = Some(d.val)], outcome |-> "ok",
          ran |-> r6]

\* app.py generate_initial_matrix, lines 130-212, with num_personas=3;
\* ran lists the stages called
generate_initial_matrix(S, in) ==
    LET a == analyze(in.step1, in.logOk)
        r1 == << Ran("analyze", a.ok) >> IN
    IF ~a.ok THEN [S |-> S, outcome |-> "step1_failed", ran |-> r1] ELSE
    LET S1 == [S EXCEPT !.step1_result = Some(a.val)]
        p == generate_personas(in.personas, DEFAULT_NUM_PERSONAS)
        r2 == Append(r1, Ran("generate_personas", p.ok)) IN
    IF ~p.ok THEN [S |-> S1, outcome |-> "step2_failed", ran |-> r2] ELSE
    LET S2 == [S1 EXCEPT !.personas = Some(p.val)]
        x == generate_axes(in.axes)
        r3 == Append(r2, Ran("generate_axes", x.ok)) IN
    IF ~x.ok THEN [S |-> S2, outcome |-> "step3_failed", ran |-> r3] ELSE
    LET S3 == [S2 EXCEPT !.axes = Some(x.val)]
        m == evaluate_matrix(p.val, x.val, MatrixReplies(in.shapes, p.val, x.val),
                             DEFAULT_AGE_RANGES)
        r4 == Append(r3, Ran("evaluate_matrix", m.ok)) IN
    IF ~m.ok THEN [S |-> S3, outcome |-> "step4_failed", ran |-> r4] ELSE
    LET review_result == review(in.review)
        fix == Get(review_result, "has_issues", FALSE)
        m2 == IF fix THEN apply_fixes(m.val, review_result) ELSE m.val
        r5 == Append(r4, Ran("review", TRUE))
                 \o (IF fix THEN << Ran("apply_fixes", TRUE) >> ELSE << >>)
        S4 == [S3 EXCEPT !.matrix = Some(m2)]
        d == extract_discussion_points(in.discussion)
        r6 == Append(r5, Ran("extract_discussion_points", d.ok)) IN
    IF ~d.ok THEN [S |-> S4, outcome |-> "step5_failed", ran |-> r6]
    ELSE [S |-> [S4 EXCEPT !.discussion_points = Some(d.val)], outcome |-> "ok",
          ran |-> r6]

\* services/persona_service.py add_personas
add_personas(current_state, additional_count, in) ==
    LET new == generate_additional_personas(in.personas, current_state.personas,
                                            additional_count) IN
    IF ~new.ok THEN new ELSE
    LET all_personas == current_state.personas \o new.val
        updated_axes == update_axes(in.axes, current_state.axes)
        m == evaluate_matrix(all_personas, updated_axes,
                             MatrixReplies(in.shapes, all_personas, updated_axes),
                             DEFAULT_AGE_RANGES) IN
    IF ~m.ok THEN m ELSE
    LET review_result == review(in.review)
        m2 == IF Get(review_result, "has_issues", FALSE)
              THEN apply_fixes(m.val, review_result) ELSE m.val
        d == extract_discussion_points(in.discussion) IN
    IF ~d.ok THEN d
    ELSE Ok([personas |-> all_personas, axes |-> updated_axes, matrix |-> m2,
             discussion_points |-> d.val])

\* render_persona_addition_tab, lines 300-323
render_persona_addition_tab(S, additional_count, in) ==
    LET updated == add_personas([personas |-> Val(S.personas), axes |-> Val(S.axes)],
                                additional_count, in) IN
    IF ~updated.ok THEN [S |-> S, outcome |-> "failed"]
    ELSE [S |-> [S EXCEPT !.personas = Some(updated.val.personas),
                          !.axes = Some(updated.val.axes),
                          !.matrix = Some(updated.val.matrix),
                          !.discussion_points = Some(updated.val.discussion_points)],
          outcome |-> "ok"]

\* render_modification_tab, lines 375-378: the returned data is written to the session
WriteModified_nothing(S, modified_data) == S

WriteModified(S, modified_data) ==
    [S EXCEPT
       !.personas = IF "personas" \in DOMAIN modified_data
                    THEN Some(modified_data["personas"]) ELSE @,
       !.axes = IF "axes" \in DOMAIN modified_data
                THEN Some(modified_data["axes"]) ELSE @,
       !.matrix = IF "matrix" \in DOMAIN modified_data
                  THEN Some(modified_data["matrix"]) ELSE @,
       !.discussion_points = IF "discussion_points" \in DOMAIN modified_data
                             THEN Some(modified_data["discussion_points"]) ELSE @]

\* render_modification_tab, lines 382-410: the recalculation and its own except
Recalculate(S, in) ==
    LET m == evaluate_matrix(Val(S.personas), Val(S.axes),
                             MatrixReplies(in.shapes, Val(S.personas), Val(S.axes)),
                             DEFAULT_AGE_RANGES) IN
    IF ~m.ok THEN [S |-> S, ok |-> FALSE] ELSE
    LET review_result == review(in.review)
        m2 == IF Get(review_result, "has_issues", FALSE)
              THEN apply_fixes(m.val, review_result) ELSE m.val
        S1 == [S EXCEPT !.matrix = Some(m2)]
        d == extract_discussion_points(in.discussion) IN
    IF ~d.ok THEN [S |-> S1, ok |-> FALSE]
    ELSE [S |-> [S1 EXCEPT !.discussion_points = Some(d.val)], ok |-> TRUE]

\* the variant in which the service merges into the lists of the session
\* themselves instead of a deep copy of them
render_modification_tab_in_place(S, request, in) ==
    LET current_data == [personas |-> Val(S.personas), axes |-> Val(S.axes),
                         matrix |-> Val(S.matrix)]
        result == process_modification_request(request, current_data, in.reply, in.logOk)
        shared == process_modification_request(request, current_data, in.reply, TRUE)
    IN IF ~result.ok
       THEN [S |-> IF shared.ok
                   THEN [S EXCEPT !.personas = Some(shared.val.modified_data["personas"]),
                                  !.matrix = Some(shared.val.modified_data["matrix"])]
                   ELSE S,
             outcome |-> "failed", err |-> result.err, merged |-> None]
       ELSE LET written == WriteModified(S, result.val.modified_data)
                recalc == Recalculate(written, in)
            IN [S |-> [recalc.S EXCEPT !.modification_history =
                          Append(@, [request |-> request,
                                     summary |-> result.val.change_summary])],
                outcome |-> IF recalc.ok THEN "ok" ELSE "recalc_failed",
                err |-> "",
                merged |-> Some(result.val.modified_data)]

\* render_modification_tab, lines 349-422
render_modification_tab(S, request, in) ==
    LET current_data == [personas |-> Val(S.personas), axes |-> Val(S.axes),
                         matrix |-> Val(S.matrix)]
        result == process_modification_request(request, current_data, in.reply, in.logOk)
    IN IF ~result.ok
       THEN [S |-> S, outcome |-> "failed", err |-> result.err, merged |-> None]
       ELSE LET written == WriteModified(S, result.val.modified_data)
                recalc == Recalculate(written, in)
            IN [S |-> [recalc.S EXCEPT !.modification_history =
                          Append(@, [request |-> request,
                                     summary |-> result.val.change_summary])],
                outcome |-> IF recalc.ok THEN "ok" ELSE "recalc_failed",
                err |-> "",
                merged |-> Some(result.val.modified_data)]

-----------------------------------------------------------------------------
(* The answers drawn in the session specification *)

Step1Replies == { LlmFail, LlmJson(Analysis), LlmJson(Without(Analysis, "job_domain")) }

InitialPersonaReplies ==
    { LlmFail,
      LlmJson(EmptyDict),
      LlmJson([personas |-> Trio(1)]),
      LlmJson([personas |-> Trio(2)]),
      LlmJson([personas |-> SubSeq(Trio(1), 1, 2)]),
      LlmJson([personas |-> [Trio(1) EXCEPT ![2] = Persona(2, Companies(2))]]) }

\* the service numbers its new personas from P1 again; the ids are overwritten
AdditionalPersonaReplies ==
    { LlmFail,
      LlmJson([personas |-> << Persona(1, OtherCompanies(4)) >>]),
      LlmJson([personas |-> << Persona(1, OtherCompanies(4)), Persona(2, OtherCompanies(3)) >>]),
      LlmJson([personas |-> << Persona(1, OtherCompanies(11)) >>]) }

AxesReplies ==
    { LlmFail, LlmJson([axes |-> << >>]), LlmJson([axes |-> AxesOf(2)]) }

AxesUpdateReplies ==
    { LlmFail,
      LlmJson([needs_update |-> FALSE, additional_axes |-> << >>]),
      LlmJson([needs_update |-> TRUE, additional_axes |-> << Axis(3) >>]) }

\* the answers to one run of steps 4, 4.5 and 5 over n personas: the block
\* shape per persona, the review answer and the discussion answer
AllExact(n) == [i \in 1..n |-> "exact"]
RunAnswers(n) ==
    { [shapes |-> AllExact(n), review |-> LlmFail, discussion |-> LlmText(<<"d1">>)],
      [shapes |-> AllExact(n),
       review |-> LlmJson([has_issues |-> TRUE, issues |-> << Issue >>]),
       discussion |-> LlmText(<<"d1">>)],
      [shapes |-> AllExact(n),
       review |-> LlmJson([has_issues |-> FALSE, issues |-> << >>]),
       discussion |-> LlmText(<<" ">>)],
      [shapes |-> AllExact(n), review |-> LlmFail, discussion |-> LlmFail],
      [shapes |-> [i \in 1..n |-> IF i = 1 THEN "short" ELSE "exact"],
       review |-> LlmFail, discussion |-> LlmText(<<"d1">>)],
      [shapes |-> [i \in 1..n |-> IF i = n THEN "fail" ELSE "exact"],
       review |-> LlmFail, discussion |-> LlmText(<<"d1">>)] }

PersonaDeltas ==
    { [id |-> "P1", companies |-> OtherCompanies(5)],
      [id |-> "P2", companies |-> OtherCompanies(2)],
      [id |-> "P2", industry |-> "indX"],
      [companies |-> OtherCompanies(4)],
      Persona(9, Companies(3)) }

CellUpdates ==
    { [row_index |-> 1, col_index |-> 4, value |-> <<"^">>],
      [row_index |-> 1, col_index |-> 0, value |-> <<"^">>],
      [row_index |-> 2, col_index |-> 99, value |-> <<"^">>],
      [row_index |-> 99, col_index |-> 4, value |-> <<"^">>] }

ModificationReplies ==
    { LlmFail, LlmJson(EmptyDict) }
    \cup { LlmJson([modification_type |-> "personas",
                    modified_data |-> [personas |-> << d >>],
                    change_summary |-> <<"sum">>]) : d \in PersonaDeltas }
    \cup { LlmJson([modification_type |-> "axes",
                    modified_data |-> [axes |-> a],
                    change_summary |-> <<"sum">>])
           : a \in { AxesOf(1), << [category |-> "flow"] >> } }
    \cup { LlmJson([modification_type |-> "matrix_cells",
                    modified_data |-> [cell_updates |-> << u >>],
                    change_summary |-> <<"sum">>]) : u \in CellUpdates }
    \cup { LlmJson([modification_type |-> "discussion_points",
                    modified_data |-> [discussion_points |-> <<"d2">>],
                    change_summary |-> <<"sum">>]) }

Requests == { <<"request">> }

-----------------------------------------------------------------------------
(* The session specification: one action per handler of app.py *)

Session ==
    [step1_result |-> step1_result, personas |-> personas, axes |-> axes,
     matrix |-> matrix, discussion_points |-> discussion_points,
     modification_history |-> modification_history]

Becomes(S) ==
    /\ step1_result' = S.step1_result
    /\ personas' = S.personas
    /\ axes' = S.axes
    /\ matrix' = S.matrix
    /\ discussion_points' = S.discussion_points
    /\ modification_history' = S.modification_history

NoCall == [fn |-> "none"]

\* the keys initialize_session_state defines
SessionKeys ==
    { "initialized", "job_description", "step1_result", "personas", "axes", "matrix",
      "discussion_points", "qa_history", "modification_history", "processing",
      "matrix_updated_at" }

\* main, line 481: st.session_state.matrix is read before a section is drawn
\* and raises AttributeError when the key is missing
Rendered == "matrix" \in keys

\* initialize_session_state, lines 33-46
Init ==
    /\ job_description = << >>
    /\ step1_result = None
    /\ personas = None
    /\ axes = None
    /\ matrix = None
    /\ discussion_points = None
    /\ modification_history = << >>
    /\ qa_history = << >>
    /\ keys = SessionKeys
    /\ last = [op |-> "none", outcome |-> "none", err |-> "", reply |-> LlmFail]
    /\ merged = None
    /\ call = NoCall

\* render_input_section, lines 95-103: the job posting is typed in
InputJob ==
    /\ Rendered
    /\ matrix = None
    /\ job_description = << >>
    /\ job_description' = <<"job">>
    /\ UNCHANGED << step1_result, personas, axes, matrix, discussion_points,
                    modification_history, qa_history, keys, last, merged, call >>

\* the generate button, lines 123-127
Generate ==
    /\ Rendered
    /\ matrix = None
    /\ job_description # << >>
    /\ \E r1 \in Step1Replies, logOk \in BOOLEAN, r2 \in InitialPersonaReplies,
          r3 \in AxesReplies, run \in RunAnswers(DEFAULT_NUM_PERSONAS) :
         \E out \in { generate_initial_matrix(Session,
                       [step1 |-> r1, logOk |-> logOk, personas |-> r2, axes |-> r3,
                        shapes |-> run.shapes, review |-> run.review,
                        discussion |-> run.discussion]) } :
            /\ Becomes(out.S)
            /\ last' = [op |-> "generate", outcome |-> out.outcome, err |-> "",
                        reply |-> LlmFail]
    /\ merged' = None
    /\ UNCHANGED << job_description, qa_history, keys, call >>

\* steps 3-5 of add_personas are reached only when the new personas validate
RunsAfterNew(r2, additional_count) ==
    LET n == Len(Val(personas)) + additional_count IN
    IF generate_additional_personas(r2, Val(personas), additional_count).ok
    THEN { [axes |-> r3, run |-> [shapes |-> AllExact(n), review |-> LlmFail,
                                   discussion |-> LlmText(<<"d1">>)]]
             : r3 \in AxesUpdateReplies }
         \cup { [axes |-> LlmJson([needs_update |-> TRUE, additional_axes |-> << Axis(3) >>]),
                 run |-> run] : run \in RunAnswers(n) }
    ELSE { [axes |-> LlmFail,
            run |-> [shapes |-> AllExact(n), review |-> LlmFail, discussion |-> LlmFail]] }

\* the add-personas button, lines 292-323 (number_input: 1..5)
AddPersonas ==
    /\ Rendered
    /\ matrix # None
    /\ \E additional_count \in 1..5 :
         /\ Len(Val(personas)) + additional_count <= MaxPersonas
         /\ \E r2 \in AdditionalPersonaReplies :
              \E rest \in RunsAfterNew(r2, additional_count) :
                \E out \in { render_persona_addition_tab(Session, additional_count,
                              [personas |-> r2, axes |-> rest.axes,
                               shapes |-> rest.run.shapes, review |-> rest.run.review,
                               discussion |-> rest.run.discussion]) } :
                   /\ Becomes(out.S)
                   /\ last' = [op |-> "add", outcome |-> out.outcome, err |-> "",
                               reply |-> LlmFail]
    /\ merged' = None
    /\ UNCHANGED << job_description, qa_history, keys, call >>

\* the answers of the recalculation are consumed only when the request itself
\* succeeded; otherwise no call of steps 4-5 is issued
RunsAfter(request, reply, logOk) ==
    LET current_data == [personas |-> Val(personas), axes |-> Val(axes),
                         matrix |-> Val(matrix)]
        result == process_modification_request(request, current_data, reply, logOk)
    IN IF result.ok
       THEN RunAnswers(Len(result.val.modified_data["personas"]))
       ELSE { [shapes |-> << >>, review |-> LlmFail, discussion |-> LlmFail] }

\* the modify button, lines 345-422
Modify ==
    /\ Rendered
    /\ matrix # None
    /\ Len(modification_history) < MaxMods
    /\ \E request \in Requests, reply \in ModificationReplies, logOk \in BOOLEAN :
         \E run \in RunsAfter(request, reply, logOk) :
           \E out \in { render_modification_tab(Session, request,
                         [reply |-> reply, logOk |-> logOk, shapes |-> run.shapes,
                          review |-> run.review, discussion |-> run.discussion]) } :
              /\ Becomes(out.S)
              /\ last' = [op |-> "modify", outcome |-> out.outcome, err |-> out.err,
                          reply |-> reply]
              /\ merged' = out.merged
    /\ UNCHANGED << job_description, qa_history, keys, call >>

\* the Q&A tab, lines 425-470: the question typed in, the response of the
\* service to the one call of generate, and whether the history log is writable
Questions == { << >>, <<"why">>, <<"book">> }
QAResponses ==
    { Returned("stop", Some(<<"because">>)),
      Returned("stop", Some(<<" ", "essay", " ">>)),
      Returned("stop", None),
      Raised("APIConnectionError", <<"connection error">>) }

Ask ==
    /\ Rendered
    /\ matrix # None
    /\ \E question \in Questions, response \in QAResponses, logOk \in BOOLEAN :
         IF question = << >>
         THEN /\ qa_history' = qa_history
              /\ last' = [op |-> "ask", outcome |-> "none", err |-> "", reply |-> LlmFail,
                          question |-> question, answer |-> << >>, dropped |-> 0]
         ELSE \E out \in { answer_question(question, qa_history, response, logOk) } :
                IF out.result.ok
                THEN /\ qa_history' = out.result.val.updated_history
                     /\ last' = [op |-> "ask", outcome |-> "ok", err |-> "",
                                 reply |-> LlmFail, question |-> question,
                                 answer |-> out.result.val.answer,
                                 dropped |-> Len(qa_history) + 1
                                             - Len(out.result.val.updated_history)]
                ELSE /\ qa_history' = qa_history
                     /\ last' = [op |-> "ask", outcome |-> "failed", err |-> "",
                                 reply |-> LlmFail, question |-> question,
                                 answer |-> << >>, dropped |-> 0]
    /\ merged' = None
    /\ UNCHANGED << job_description, step1_result, personas, axes, matrix,
                    discussion_points, modification_history, keys, call >>

\* initialize_session_state, lines 33-46, on the session S with the keys k
initialize_session_state(k, S) ==
    IF "initialized" \notin k
    THEN [keys |-> SessionKeys,
          S |-> [step1_result |-> None, personas |-> None, axes |-> None,
                 matrix |-> None, discussion_points |-> None,
                 modification_history |-> << >>],
          job_description |-> << >>, qa_history |-> << >>]
    ELSE [keys |-> k, S |-> S.S, job_description |-> S.job_description,
          qa_history |-> S.qa_history]

\* main, lines 473-481, up to the choice of the section to draw
main(k, S) ==
    LET T == initialize_session_state(k, S) IN
    T @@ [outcome |-> IF "matrix" \in T.keys THEN "ok" ELSE "AttributeError"]

\* the button of the sidebar, lines 489-494: every key but 'initialized' is
\* deleted, then st.rerun() runs main again.  A deleted key has no value; the
\* variables of the deleted keys hold what they held
Reset ==
    /\ Rendered
    /\ matrix # None
    /\ \E out \in { main(keys \cap {"initialized"},
                         [S |-> Session, job_description |-> job_description,
                          qa_history |-> qa_history]) } :
         /\ keys' = out.keys
         /\ Becomes(out.S)
         /\ job_description' = out.job_description
         /\ qa_history' = out.qa_history
         /\ last' = [op |-> "reset", outcome |-> out.outcome, err |-> "",
                     reply |-> LlmFail]
    /\ merged' = None
    /\ UNCHANGED call

Next == InputJob \/ Generate \/ AddPersonas \/ Modify \/ Reset

Spec == Init /\ [][Next]_vars

\* The Q&A tab reads the session and writes qa_history only, so the sequences
\* of questions are explored on the sessions that one generation leaves
NextQA == InputJob \/ Generate \/ Ask \/ Reset

SpecQA == Init /\ [][NextQA]_vars

-----------------------------------------------------------------------------
(* The function specification: the functions of the core called directly   *)
(* on inputs drawn from bounded sets; call records the call and its result *)

\* What the caller's object holds after the call, for the functions that are
\* handed a part of the state.
\* sync_matrix_companies_with_personas: line 54 assigns into the rows of the
\* list passed in, line 60 returns that list
sync_matrix_argument(m, ps) == sync_matrix_companies_with_personas(m, ps)
\* _apply_modifications: every write goes to the deep copy of line 300
apply_modifications_argument(modification_type, modified_data, current_data) ==
    current_data
\* apply_fixes: returns the grid untouched (line 126) or copies of its rows
\* (line 130)
apply_fixes_argument(m, review_result) == m
\* add_personas: the lists are joined with + (line 78; step 3, line 163), the
\* steps only read what they are given
add_personas_argument(current_state, additional_count, in) == current_state

\* all lists of length 0..n over the set S
ListsUpTo(S, n) == UNION { [1..k -> S] : k \in 0..n }

PersonaShapes ==
    { Persona(1, Companies(3)), Persona(2, Companies(10)),
      Persona(3, Companies(2)), Persona(4, Companies(11)),
      Without(Persona(5, Companies(4)), "industry"),
      Without(Persona(6, Companies(4)), "companies") }

PersonaListReplies ==
    { LlmFail, LlmJson(EmptyDict) }
    \cup { LlmJson([personas |-> l]) : l \in ListsUpTo(PersonaShapes, MaxReplyLen) }

CallGeneratePersonas ==
    /\ call = NoCall
    /\ \E reply \in PersonaListReplies, num_personas \in 1..DEFAULT_NUM_PERSONAS :
         call' = [fn |-> "generate_personas", reply |-> reply, count |-> num_personas,
                  result |-> generate_personas(reply, num_personas)]
    /\ UNCHANGED << job_description, step1_result, personas, axes, matrix,
                    discussion_points, modification_history, qa_history, keys,
                    last, merged >>

CallGenerateAdditional ==
    /\ call = NoCall
    /\ \E reply \in PersonaListReplies, first \in 1..2, additional_count \in 1..5 :
         call' = [fn |-> "generate_additional_personas", reply |-> reply,
                  existing |-> Trio(first), count |-> additional_count,
                  result |-> generate_additional_personas(reply, Trio(first),
                                                          additional_count)]
    /\ UNCHANGED << job_description, step1_result, personas, axes, matrix,
                    discussion_points, modification_history, qa_history, keys,
                    last, merged >>

AxesLists == { AxesOf(0), AxesOf(2), << Axis(1), [category |-> "flow"] >> }

CallEvaluateMatrix ==
    /\ call = NoCall
    /\ \E n \in 0..MaxEvalPersonas, as \in AxesLists :
         \E shapes \in [1..n -> BlockShapes \cup {"fail"}] :
           LET ps == [i \in 1..n |-> Persona(i, Companies(3))]
               replies == MatrixReplies(shapes, ps, as)
           IN call' = [fn |-> "evaluate_matrix", personas |-> ps, axes |-> as,
                       replies |-> replies,
                       result |-> evaluate_matrix(ps, as, replies, DEFAULT_AGE_RANGES)]
    /\ UNCHANGED << job_description, step1_result, personas, axes, matrix,
                    discussion_points, modification_history, qa_history, keys,
                    last, merged >>

\* the dict app.py hands to the modification service: three personas, two
\* axes and the matrix evaluated for them
SampleData ==
    [personas |-> Trio(1), axes |-> AxesOf(2),
     matrix |-> evaluate_matrix(Trio(1), AxesOf(2),
                                MatrixReplies(AllExact(3), Trio(1), AxesOf(2)),
                                DEFAULT_AGE_RANGES).val]

DeltaShapes ==
    { [id |-> "P2", companies |-> OtherCompanies(6)],
      [id |-> "P3", companies |-> OtherCompanies(2)],
      [id |-> "P1", industry |-> "indX"],
      [id |-> "P2", job_type |-> "jobX"],
      [companies |-> OtherCompanies(4)],
      Persona(9, Companies(3)) }

UpdateShapes ==
    { [row_index |-> r, col_index |-> c, value |-> <<"^">>]
        : r \in {-10, -1, 0, 1, 10}, c \in {-1, 0, 4, 6} }
    \cup { [col_index |-> 4, value |-> <<"^">>],
           [row_index |-> 1, value |-> <<"^">>],
           [row_index |-> 2, col_index |-> 5] }

MergeInputs ==
    { [type |-> "personas", data |-> [personas |-> l]]
        : l \in ListsUpTo(DeltaShapes, MaxDeltaLen) }
    \cup { [type |-> "matrix_cells", data |-> [cell_updates |-> l]]
             : l \in ListsUpTo(UpdateShapes, MaxDeltaLen) }
    \cup { [type |-> t, data |-> d]
             : t \in {"personas", "axes", "matrix_cells", "discussion_points", "general"},
               d \in { EmptyDict, [axes |-> AxesOf(1)],
                       [discussion_points |-> <<"d2">>],
                       [personas |-> << [id |-> "P1", industry |-> "indX"] >>] } }

CallApplyModifications ==
    /\ call = NoCall
    /\ \E in \in MergeInputs :
         call' = [fn |-> "apply_modifications", modification_type |-> in.type,
                  modified_data |-> in.data, current_data |-> SampleData,
                  argument |-> apply_modifications_argument(in.type, in.data, SampleData),
                  result |-> apply_modifications(in.type, in.data, SampleData)]
    /\ UNCHANGED << job_description, step1_result, personas, axes, matrix,
                    discussion_points, modification_history, qa_history, keys,
                    last, merged >>

SyncHeaders ==
    { BaseHeader,
      << IdLabel, <<"industry">> >>,
      << <<"industry">>, CompaniesLabel >>,
      << CompaniesLabel, IdLabel >> }

SyncRows ==
    { << <<"P1", "/", "25-29">>, <<"ind1">>, <<"job1">>, <<"old">>, <<"o">> >>,
      << <<" ", "P2", " ", "/", "30-39">>, <<"ind2">>, <<"job2">>, <<"old">> >>,
      << <<"P1">>, <<"ind1">>, <<"job1">>, <<"c1", ", ", "c2", ", ", "c3">> >>,
      << <<"P9", "/", "25-29">>, <<"ind9">>, <<"job9">>, <<"old">> >>,
      << <<"/", "25-29">>, <<"ind1">>, <<"job1">>, <<"old">> >>,
      << << >>, <<"ind1">>, <<"job1">>, <<"old">> >>,
      << <<"P1", "/", "25-29">>, <<"ind1">> >>,
      << <<"P1", "/", "25-29">> >>,
      << >> }

SyncPersonas ==
    { << >>,
      << Persona(1, Companies(3)), Persona(2, OtherCompanies(4)) >>,
      << Persona(1, Companies(3)), Persona(1, OtherCompanies(3)) >>,
      << Without(Persona(1, Companies(3)), "id"), Without(Persona(2, Companies(3)), "companies") >>,
      << [Persona(1, Companies(3)) EXCEPT !["id"] = ""] >> }

CallSync ==
    /\ call = NoCall
    /\ \E m \in { << >> } \cup { << h >> \o rows : h \in SyncHeaders,
                                  rows \in ListsUpTo(SyncRows, MaxSyncRows) },
          ps \in SyncPersonas :
         call' = [fn |-> "sync_matrix_companies_with_personas", matrix |-> m,
                  personas |-> ps, argument |-> sync_matrix_argument(m, ps),
                  result |-> sync_matrix_companies_with_personas(m, ps)]
    /\ UNCHANGED << job_description, step1_result, personas, axes, matrix,
                    discussion_points, modification_history, qa_history, keys,
                    last, merged >>

\* the session before a run: as initialize_session_state leaves it, or with
\* the outputs an earlier failed run stored
SessionsBeforeRun ==
    LET fresh == [step1_result |-> None, personas |-> None, axes |-> None,
                  matrix |-> None, discussion_points |-> None,
                  modification_history |-> << >>]
    IN { fresh,
         [fresh EXCEPT !.step1_result = Some([Analysis EXCEPT !["role"] = <<"old role">>]),
                       !.personas = Some(Trio(4))] }

CallGenerateInitialMatrix ==
    /\ call = NoCall
    /\ \E S \in SessionsBeforeRun, r1 \in Step1Replies, logOk \in BOOLEAN,
          r2 \in InitialPersonaReplies, r3 \in AxesReplies,
          run \in RunAnswers(DEFAULT_NUM_PERSONAS) :
         \E in \in { [step1 |-> r1, logOk |-> logOk, personas |-> r2, axes |-> r3,
                      shapes |-> run.shapes, review |-> run.review,
                      discussion |-> run.discussion] } :
           call' = [fn |-> "generate_initial_matrix", S |-> S, in |-> in,
                    result |-> generate_initial_matrix(S, in)]
    /\ UNCHANGED << job_description, step1_result, personas, axes, matrix,
                    discussion_points, modification_history, qa_history, keys,
                    last, merged >>

ServiceResponses ==
    { Raised("RateLimitError", <<"429", "rate_limit", "exceeded">>),
      Raised("RateLimitError", <<"RATE_LIMIT">>),
      Raised("APIConnectionError", <<"connection error">>),
      Returned("stop", Some(JsonText("analysis"))),
      Returned("length", Some(<<"{", "analysis">>)),
      Returned("stop", None),
      Returned("length", Some(<<" ">>)),
      Returned("stop", Some(<< >>)) }

CallGenerate ==
    /\ call = NoCall
    /\ \E response \in ServiceResponses
                       \cup { Returned("length", None), Returned("stop", Some(<<" ", " ">>)),
                              Returned("length", Some(<< >>)),
                              Returned("content_filter", Some(<<"text">>)) } :
         call' = [fn |-> "generate", response |-> response, result |-> generate(response)]
    /\ UNCHANGED << job_description, step1_result, personas, axes, matrix,
                    discussion_points, modification_history, qa_history, keys,
                    last, merged >>

\* the responses the service would give to as many calls as the loop can issue
ResponseLists == [1..(IF MaxAttempts > MAX_RETRIES THEN MaxAttempts ELSE MAX_RETRIES)
                    -> ServiceResponses]

CallGenerateWithRetry ==
    /\ call = NoCall
    /\ \E responses \in ResponseLists,
          max_retries \in { None } \cup { Some(k) : k \in 0..MaxAttempts } :
         call' = [fn |-> "generate_with_retry", responses |-> responses,
                  max_retries |-> max_retries,
                  K |-> IF max_retries = None THEN MAX_RETRIES ELSE Val(max_retries),
                  result |-> generate_with_retry(responses, max_retries)]
    /\ UNCHANGED << job_description, step1_result, personas, axes, matrix,
                    discussion_points, modification_history, qa_history, keys,
                    last, merged >>

\* Step1JobAnalyzer.analyze on top of the client
CallAnalyze ==
    /\ call = NoCall
    /\ \E responses \in [1..MAX_RETRIES -> ServiceResponses] :
         call' = [fn |-> "analyze", responses |-> responses,
                  result |-> analyze(ReplyOf(responses), TRUE)]
    /\ UNCHANGED << job_description, step1_result, personas, axes, matrix,
                    discussion_points, modification_history, qa_history, keys,
                    last, merged >>

\* the texts a model answers with: a document, or something that is none,
\* with prose before and after it and a code fence around it
Documents ==
    { JsonText("analysis"),
      << "{", "k", ":", Quote, "}", Quote, "}" >>,
      << "{", "a", "{", "b", "}", "}" >> }
Bodies == Documents \cup { << "{", "analysis" >>, << "no", "json" >> }
Leading == { << >>, << " " >>, << "Here", " " >>, << "1", ".", " " >>,
             << "see", "{", "x", "}", " " >> }
Opening == { << >>, << FenceJson, " " >>, << Fence, " " >>, << FencePy, " " >> }
Closing == { << >>, << " ", Fence >> }
Trailing == { << >>, << " ", "thanks" >>, << " ", "{", "b", "}" >> }

CallParseJson ==
    /\ call = NoCall
    /\ \E leading \in Leading, opening \in Opening, body \in Bodies,
          closing \in Closing, trailing \in Trailing :
         LET response_text == leading \o opening \o body \o closing \o trailing IN
         call' = [fn |-> "parse_json", leading |-> leading, opening |-> opening,
                  body |-> body, closing |-> closing, trailing |-> trailing,
                  response_text |-> response_text,
                  result |-> parse_json(response_text)]
    /\ UNCHANGED << job_description, step1_result, personas, axes, matrix,
                    discussion_points, modification_history, qa_history, keys,
                    last, merged >>

\* the words a request is made of: keywords of every group, the halves of a
\* compound keyword, and a word that is no keyword
RequestWords ==
    { "kigyou", "companies", "bunseki", "jiku", "flow", "hyouka", "gyou", "ronten",
      "kakunin", "please" }
RequestTexts == ListsUpTo(RequestWords, MaxRequestLen)

CallDetect ==
    /\ call = NoCall
    /\ \E request \in RequestTexts :
         call' = [fn |-> "detect_modification_target", request |-> request,
                  result |-> detect_modification_target(request)]
    /\ UNCHANGED << job_description, step1_result, personas, axes, matrix,
                    discussion_points, modification_history, qa_history, keys,
                    last, merged >>

\* PersonaService.add_personas on a state of two or three personas
StatesBeforeAdd ==
    { [personas |-> ps, axes |-> as] :
        ps \in { Trio(1), SubSeq(Trio(1), 1, 2) },
        as \in { << >>, AxesOf(1), AxesOf(2) } }

CallAddPersonas ==
    /\ call = NoCall
    /\ \E current_state \in StatesBeforeAdd, additional_count \in 1..2,
          r2 \in AdditionalPersonaReplies,
          r3 \in AxesUpdateReplies \cup { LlmJson(EmptyDict), LlmJson([needs_update |-> TRUE]) } :
         \E run \in RunAnswers(Len(current_state.personas) + additional_count) :
           \E in \in { [personas |-> r2, axes |-> r3, shapes |-> run.shapes,
                        review |-> run.review, discussion |-> run.discussion] } :
             call' = [fn |-> "add_personas", current_state |-> current_state,
                      additional_count |-> additional_count, in |-> in,
                      argument |-> add_personas_argument(current_state,
                                                         additional_count, in),
                      result |-> add_personas(current_state, additional_count, in)]
    /\ UNCHANGED << job_description, step1_result, personas, axes, matrix,
                    discussion_points, modification_history, qa_history, keys,
                    last, merged >>

\* Step4_5SelfReviewer.apply_fixes on the grid of step 4
CallApplyFixes ==
    /\ call = NoCall
    /\ \E m \in { SampleData.matrix, << BaseHeader >> },
          review_result \in { ReviewDefault, EmptyDict,
                              [has_issues |-> TRUE, issues |-> << Issue >>],
                              [has_issues |-> TRUE, issues |-> << >>] } :
         call' = [fn |-> "apply_fixes", matrix |-> m, review_result |-> review_result,
                  argument |-> apply_fixes_argument(m, review_result),
                  result |-> apply_fixes(m, review_result)]
    /\ UNCHANGED << job_description, step1_result, personas, axes, matrix,
                    discussion_points, modification_history, qa_history, keys,
                    last, merged >>

\* QAService.answer_question on histories of 0-2 and of 9-11 turns
QATurns == { [q |-> <<"why">>, a |-> <<"because">>], [q |-> <<"why">>, a |-> <<"essay">>] }
QAHistories ==
    ListsUpTo(QATurns, 2)
    \cup { [i \in 1..n |-> [q |-> <<"why">>, a |-> <<"because">>]] :
             n \in (QA_HISTORY_MAX_ITEMS - 1)..(QA_HISTORY_MAX_ITEMS + 1) }

CallAnswerQuestion ==
    /\ call = NoCall
    /\ \E question \in Questions \ { << >> }, history \in QAHistories,
          response \in QAResponses, logOk \in BOOLEAN :
         \E out \in { answer_question(question, history, response, logOk) } :
           call' = [fn |-> "answer_question", question |-> question,
                    history |-> history, response |-> response, logOk |-> logOk,
                    argument |-> out.history_argument, result |-> out.result]
    /\ UNCHANGED << job_description, step1_result, personas, axes, matrix,
                    discussion_points, modification_history, qa_history, keys,
                    last, merged >>

\* ModificationService.process_modification_request on the sample data;
\* target is the classification _build_modification_prompt puts in the prompt
\* (lines 106-110), reply what the service answers to that prompt
ClassifiedRequests ==
    { <<"kigyou", "please">>, <<"jiku">>, <<"hyouka">>, <<"ronten">>, <<"please">> }

CallProcessModificationRequest ==
    /\ call = NoCall
    /\ \E request \in ClassifiedRequests, reply \in ModificationReplies,
          logOk \in BOOLEAN :
         call' = [fn |-> "process_modification_request", request |-> request,
                  target |-> detect_modification_target(request).type,
                  current_data |-> SampleData, reply |-> reply, logOk |-> logOk,
                  result |-> process_modification_request(request, SampleData,
                                                          reply, logOk)]
    /\ UNCHANGED << job_description, step1_result, personas, axes, matrix,
                    discussion_points, modification_history, qa_history, keys,
                    last, merged >>

NextFn ==
    \/ CallGeneratePersonas
    \/ CallGenerateAdditional
    \/ CallEvaluateMatrix
    \/ CallApplyModifications
    \/ CallSync
    \/ CallGenerateInitialMatrix
    \/ CallGenerate
    \/ CallGenerateWithRetry
    \/ CallAnalyze
    \/ CallParseJson
    \/ CallDetect
    \/ CallAddPersonas
    \/ CallApplyFixes
    \/ CallAnswerQuestion
    \/ CallProcessModificationRequest

SpecFn == Init /\ [][NextFn]_vars

-----------------------------------------------------------------------------
(* Claims *)

RECURSIVE RowsReturned(_)
RowsReturned(replies) ==
    IF Len(replies) = 0 THEN 0
    ELSE (IF Head(replies).ok THEN Len(Get(Head(replies).json, "matrix", << >>)) ELSE 0)
         + RowsReturned(Tail(replies))

\* C1: every matrix evaluate_matrix returns for P personas and A age ranges has
\* P*A + 1 rows and every data row is as wide as the header; when the rows the
\* service returned do not add up to P*A, evaluate_matrix raises instead.
C1_MatrixShape ==
    call.fn = "evaluate_matrix" =>
        LET P == Len(call.personas)
            A == Len(DEFAULT_AGE_RANGES)
        IN /\ call.result.ok =>
                /\ Len(call.result.val) = P * A + 1
                /\ \A r \in 2..Len(call.result.val) :
                      Len(call.result.val[r]) = Len(call.result.val[1])
                /\ Len(call.result.val[1]) = 4 + Len(call.axes)
           /\ RowsReturned(call.replies) # P * A => ~call.result.ok

C1_Witness ==
    /\ call.fn = "evaluate_matrix"
    /\ call.result.ok
    /\ Len(call.personas) = 3
    /\ Len(call.axes) = 2
    /\ \E i \in 1..3 : Len(call.replies[i].json["matrix"]) # 3

\* C2: in a returned matrix the data rows are P consecutive blocks in persona
\* order, the i-th block holding exactly one row per age range for persona i.
C2_BlocksPerPersona ==
    (call.fn = "evaluate_matrix" /\ call.result.ok) =>
        LET A == Len(DEFAULT_AGE_RANGES) IN
        \A i \in 1..Len(call.personas), a \in 1..A :
            call.result.val[1 + (i - 1) * A + a][1]
                = << call.personas[i]["id"], "/", DEFAULT_AGE_RANGES[a] >>

\* C3: generate_personas and generate_additional_personas return a list only if
\* it has exactly the requested number of personas, each with id, industry,
\* job_type and 3..10 companies; a wrong count or company count is a validation
\* error.
C3_PersonasValidated ==
    call.fn \in {"generate_personas", "generate_additional_personas"} =>
        /\ call.result.ok =>
              /\ Len(call.result.val) = call.count
              /\ \A i \in 1..Len(call.result.val) :
                    LET p == call.result.val[i] IN
                    /\ {"id", "industry", "job_type", "companies"} \subseteq DOMAIN p
                    /\ Len(p["companies"]) \in 3..10
        /\ call.reply.ok =>
              LET l == Get(call.reply.json, "personas", << >>) IN
              (\/ Len(l) # call.count
               \/ \E i \in 1..Len(l) : "companies" \in DOMAIN l[i]
                                       /\ Len(l[i]["companies"]) \notin 3..10)
              => (~call.result.ok /\ call.result.err = "ValueError")

C3_Witness ==
    /\ call.fn = "generate_additional_personas"
    /\ call.result.ok
    /\ call.count = 2
    /\ \E i \in 1..2 : Len(call.result.val[i]["companies"]) = 10

\* C4: in every canonical state every persona has between 3 and 10 companies.
C4_CompanyBound ==
    personas # None =>
        \A i \in 1..Len(Val(personas)) : Len(Val(personas)[i]["companies"]) \in 3..10

Ids(ps) == [i \in 1..Len(ps) |-> ps[i]["id"]]

\* C5: a modification cycle leaves the persona list with the same length and the
\* same ids in the same positions; a delta persona with an unknown id adds none.
C5_IdsStable ==
    [][ last'.op = "modify" => Ids(Val(personas')) = Ids(Val(personas)) ]_vars

DeltaOf(reply) ==
    IF reply.ok /\ Get(reply.json, "modification_type", "general") = "personas"
    THEN Get(Get(reply.json, "modified_data", EmptyDict), "personas", << >>)
    ELSE << >>

C5_Witness ==
    /\ last.op = "modify"
    /\ last.outcome = "ok"
    /\ \E k \in 1..Len(DeltaOf(last.reply)) :
          /\ "id" \in DOMAIN DeltaOf(last.reply)[k]
          /\ \A i \in 1..Len(Val(personas)) :
                Val(personas)[i]["id"] # DeltaOf(last.reply)[k]["id"]

\* C6: after any sequence of initial generation and add-personas runs all
\* persona ids of the combined list are pairwise distinct.
C6_IdsDistinct ==
    personas # None =>
        \A i, j \in 1..Len(Val(personas)) :
            i # j => Val(personas)[i]["id"] # Val(personas)[j]["id"]

\* C7: a personas merge is a partial update: a persona named by the delta takes
\* exactly the fields the delta carries and keeps its other fields, and every
\* persona the delta does not name is unchanged.
C7_PartialUpdate ==
    (call.fn = "apply_modifications" /\ call.modification_type = "personas"
       /\ call.result.ok) =>
        LET old == call.current_data["personas"]
            new == call.result.val["personas"]
            delta == Get(call.modified_data, "personas", << >>)
            Named(i) == {k \in 1..Len(delta) : delta[k]["id"] = old[i]["id"]}
        IN /\ Len(new) = Len(old)
           /\ call.result.val["axes"] = call.current_data["axes"]
           /\ call.result.val["matrix"] = call.current_data["matrix"]
           /\ \A i \in 1..Len(old) :
                /\ Named(i) = {} => new[i] = old[i]
                /\ \A f \in DOMAIN old[i] :
                      (\A k \in Named(i) : f \notin DOMAIN delta[k]) =>
                          (f \in DOMAIN new[i] /\ new[i][f] = old[i][f])
                /\ \A k \in Named(i) : \A f \in DOMAIN delta[k] :
                      (\A k2 \in Named(i) : k2 > k => f \notin DOMAIN delta[k2]) =>
                          (f \in DOMAIN new[i] /\ new[i][f] = delta[k][f])
                /\ DOMAIN new[i] = DOMAIN old[i] \cup UNION {DOMAIN delta[k] : k \in Named(i)}

C7_Witness ==
    /\ call.fn = "apply_modifications"
    /\ call.modification_type = "personas"
    /\ call.result.ok
    /\ call.modified_data = [personas |-> << [id |-> "P2", companies |-> OtherCompanies(6)] >>]
    /\ call.result.val["personas"][2]["companies"] = OtherCompanies(6)
    /\ call.result.val["personas"][2]["industry"] = "ind2"

\* C8: a cell update with both indices present (0 included) and row_index within
\* the matrix writes its value to exactly the cell (row_index, col_index).
C8_CellWritten ==
    (call.fn = "apply_modifications" /\ call.modification_type = "matrix_cells"
       /\ "cell_updates" \in DOMAIN call.modified_data
       /\ Len(call.modified_data["cell_updates"]) = 1) =>
        LET u == call.modified_data["cell_updates"][1]
            m == call.current_data["matrix"]
        IN ({"row_index", "col_index", "value"} \subseteq DOMAIN u
              /\ u["row_index"] \in 0..(Len(m) - 1)
              /\ u["col_index"] \in 0..(Len(m[1]) - 1)) =>
               /\ call.result.ok
               /\ call.result.val["matrix"] =
                     [m EXCEPT ![u["row_index"] + 1][u["col_index"] + 1] = u["value"]]

\* C9: a modification request that fails (model call, merge of a malformed
\* delta, history logging) leaves personas, axes, matrix and discussion points
\* exactly as they were before the request.
C9_FailedRequestChangesNothing ==
    [][ (last'.op = "modify" /\ last'.outcome = "failed") =>
            UNCHANGED << personas, axes, matrix, discussion_points,
                         modification_history >> ]_vars

C9_Witness ==
    /\ last.op = "modify"
    /\ last.outcome = "failed"
    /\ last.err = "OSError"
    /\ DeltaOf(last.reply) = << [id |-> "P1", companies |-> OtherCompanies(5)] >>
    /\ Val(personas)[1]["companies"] = Companies(3)

\* C10: when the merge of a modification succeeded and the recalculation after
\* it failed, the merged personas and axes are the canonical ones afterwards.
C10_MergeKeptWhenRecalcFails ==
    (last.op = "modify" /\ last.outcome = "recalc_failed") =>
        /\ merged # None
        /\ personas = Some(Val(merged)["personas"])
        /\ axes = Some(Val(merged)["axes"])

C10_Witness ==
    /\ last.op = "modify"
    /\ last.outcome = "recalc_failed"
    /\ DeltaOf(last.reply) = << [id |-> "P1", companies |-> OtherCompanies(5)] >>
    /\ Val(personas)[1]["companies"] = OtherCompanies(5)

\* the data rows of m whose leading id token names a persona of ps carry that
\* persona's joined companies in the companies column
RowsSynced(m, ps) ==
    \A r \in 2..Len(m) :
        \A i \in 1..Len(ps) :
            Strip(BeforeSlash(m[r][1])) = << ps[i]["id"] >> =>
                m[r][4] = Join(ps[i]["companies"], ", ")

\* C11: after a personas modification or add-personas every matrix data row of
\* a known persona has that persona's joined companies in its companies cell.
C11_CompaniesColumnSynced ==
    (last.op \in {"modify", "add"} /\ last.outcome # "failed" /\ matrix # None
       /\ \A i, j \in 1..Len(Val(personas)) :
             i # j => Val(personas)[i]["id"] # Val(personas)[j]["id"]) =>
        RowsSynced(Val(matrix), Val(personas))

\* C12: sync_matrix_companies_with_personas applied to its own result, with the
\* same personas, returns that result.
C12_SyncIdempotent ==
    call.fn = "sync_matrix_companies_with_personas" =>
        sync_matrix_companies_with_personas(call.result, call.personas) = call.result

C12_Witness ==
    /\ call.fn = "sync_matrix_companies_with_personas"
    /\ call.result # call.matrix
    /\ \E r \in 2..Len(call.matrix) :
          /\ Len(call.matrix[r]) >= 4
          /\ call.matrix[r][4] = <<"old">>
          /\ call.result[r][4] = <<"c1", ", ", "c2", ", ", "c3">>

\* the persona ids sync knows: the non-empty ids of the personas
KnownIds(ps) == { << ps[i]["id"] >> : i \in {j \in 1..Len(ps) : Get(ps[j], "id", "") # ""} }

\* C13: sync changes nothing but the companies cell of data rows that hold both
\* columns and whose leading id token is a known persona id; without the two
\* header labels, or with fewer than two rows, the matrix comes back unchanged.
C13_SyncFrame ==
    call.fn = "sync_matrix_companies_with_personas" =>
        LET m == call.matrix
            out == call.result
            id_col == IF Len(m) = 0 THEN 0 ELSE IndexOf(m[1], IdLabel)
            companies_col == IF Len(m) = 0 THEN 0 ELSE IndexOf(m[1], CompaniesLabel)
        IN /\ (Len(m) < 2 \/ id_col = 0 \/ companies_col = 0) => out = m
           /\ Len(out) = Len(m)
           /\ Len(m) > 0 => out[1] = m[1]
           /\ \A r \in 2..Len(m) :
                /\ Len(out[r]) = Len(m[r])
                /\ \A c \in 1..Len(m[r]) : c # companies_col => out[r][c] = m[r][c]
                /\ (\/ id_col = 0
                    \/ Len(m[r]) < id_col
                    \/ Len(m[r]) < companies_col
                    \/ Strip(BeforeSlash(m[r][id_col])) \notin KnownIds(call.personas))
                      => out[r] = m[r]

C13_Witness ==
    /\ call.fn = "sync_matrix_companies_with_personas"
    /\ Len(call.matrix) = 3
    /\ call.matrix[1] = BaseHeader
    /\ Len(call.matrix[2]) = 4
    /\ Len(call.matrix[3]) = 4
    /\ call.matrix[2][1] = <<"P9", "/", "25-29">>
    /\ call.matrix[3][1] = <<" ", "P2", " ", "/", "30-39">>
    /\ call.result[2] = call.matrix[2]
    /\ call.result[3][4] = Join(OtherCompanies(4), ", ")
    /\ call.result[3][2] = <<"ind2">>

\* the names of the stages a run called, in the order of the calls
StageNames(ran) == [k \in 1..Len(ran) |-> ran[k].stage]

\* the matrix step 4 returns for the answers of a run
MatrixOfRun(in) ==
    LET ps == Get(in.personas.json, "personas", << >>)
        as == Get(in.axes.json, "axes", << >>)
    IN evaluate_matrix(ps, as, MatrixReplies(in.shapes, ps, as), DEFAULT_AGE_RANGES).val

StageOrder ==
    << "analyze", "generate_personas", "generate_axes", "evaluate_matrix",
       "review", "extract_discussion_points" >>

\* C15: a run calls the stages in the order analyze, generate_personas,
\* generate_axes, evaluate_matrix, review (+ apply_fixes), extract_discussion_points;
\* a stage is called only after every stage before it returned with an output
\* its validator accepts, and no stage is called after one that failed.
C15_StagesInOrder ==
    call.fn = "generate_initial_matrix" =>
        LET ran == call.result.ran
            in == call.in
            stages == SelectSeq(StageNames(ran), LAMBDA n : n # "apply_fixes")
            n == Len(stages)
        IN /\ n >= 1
           /\ stages = SubSeq(StageOrder, 1, n)
           /\ \A k \in 1..Len(ran) :
                ran[k].stage = "apply_fixes" => (k > 1 /\ ran[k - 1].stage = "review")
           /\ \A k \in 1..(Len(ran) - 1) : ran[k].ok
           /\ n >= 2 => (in.step1.ok /\ validate_step1_result(in.step1.json) /\ in.logOk)
           /\ n >= 3 => (in.personas.ok
                         /\ validate_personas(Get(in.personas.json, "personas", << >>),
                                              DEFAULT_NUM_PERSONAS))
           /\ n >= 4 => (in.axes.ok /\ validate_axes(Get(in.axes.json, "axes", << >>)))
           /\ n >= 5 => validate_matrix(MatrixOfRun(in),
                                        DEFAULT_NUM_PERSONAS * Len(DEFAULT_AGE_RANGES))
           /\ (call.result.outcome = "ok") <=> (n = 6 /\ ran[Len(ran)].ok)

C15_Witness ==
    /\ call.fn = "generate_initial_matrix"
    /\ call.result.outcome = "step3_failed"
    /\ StageNames(call.result.ran) = << "analyze", "generate_personas", "generate_axes" >>
    /\ ~call.result.ran[3].ok

\* C16: when a stage of the initial run fails, the session holds the outputs of
\* the stages before it exactly as they returned them, and the keys of the
\* failed stage and of the stages after it are what they were before the run.
C16_NoRollback ==
    call.fn = "generate_initial_matrix" =>
        LET S0 == call.S
            in == call.in
            out == call.result
            T1 == [S0 EXCEPT !.step1_result = Some(in.step1.json)]
            T2 == [T1 EXCEPT !.personas = Some(Get(in.personas.json, "personas", << >>))]
            T3 == [T2 EXCEPT !.axes = Some(Get(in.axes.json, "axes", << >>))]
            T4 == [T3 EXCEPT !.matrix = Some(MatrixOfRun(in))]
        IN /\ out.outcome = "step1_failed" => out.S = S0
           /\ out.outcome = "step2_failed" => out.S = T1
           /\ out.outcome = "step3_failed" => out.S = T2
           /\ out.outcome = "step4_failed" => out.S = T3
           /\ out.outcome = "step5_failed" => out.S = T4

C16_Witness ==
    /\ call.fn = "generate_initial_matrix"
    /\ call.result.outcome = "step4_failed"
    /\ call.S.personas = Some(Trio(4))
    /\ call.result.S.personas = Some(Trio(1))
    /\ call.result.S.axes = Some(AxesOf(2))
    /\ call.result.S.matrix = None

\* C17: a stage whose generation call meets rate-limit failures followed, within
\* MAX_RETRIES attempts, by a good response does not fail.
C17_RateLimitRetried ==
    (/\ call.fn = "analyze"
     /\ \E k \in 2..MAX_RETRIES :
          /\ call.responses[k] = Returned("stop", Some(JsonText("analysis")))
          /\ \A i \in 1..(k - 1) :
                call.responses[i].raises /\ IsRateLimit(call.responses[i].error.msg)) =>
        call.result.ok

\* responses[i] fails in generate
Fails(response) == ~generate(response).ok

\* C18: generate_with_retry issues at most K calls of generate, returns the
\* first successful response without a further call, sleeps 2^attempt after a
\* rate-limit failure and RETRY_DELAY after another failure, and does not sleep
\* after the last attempt.
C18_BoundedRetry ==
    call.fn = "generate_with_retry" =>
        LET K == call.K
            rs == call.responses
            out == call.result
            good == {i \in 1..K : ~Fails(rs[i])}
        IN /\ out.calls <= K
           /\ good # {} =>
                LET first == CHOOSE i \in good : \A j \in good : i <= j IN
                /\ out.result = generate(rs[first])
                /\ out.calls = first
           /\ good = {} => (out.calls = K /\ ~out.result.ok)
           /\ Len(out.waits) = (IF out.calls = 0 THEN 0 ELSE out.calls - 1)
           /\ \A i \in 1..Len(out.waits) :
                out.waits[i] = IF IsRateLimit(generate(rs[i]).err.msg)
                               THEN Pow2(i - 1) ELSE RETRY_DELAY

C18_Witness ==
    /\ call.fn = "generate_with_retry"
    /\ call.max_retries = None
    /\ call.result.calls = 3
    /\ call.result.waits = << 1, 2 >>
    /\ call.result.result.ok

\* C19: when every attempt fails, the error raised is the failure of the last
\* attempt itself.
C19_LastFailureVerbatim ==
    (/\ call.fn = "generate_with_retry"
     /\ call.K >= 1
     /\ \A i \in 1..call.K : Fails(call.responses[i])) =>
        call.result.result = generate(call.responses[call.K])

\* C20: generate fails exactly when the call raises or the content is missing
\* or blank; a non-blank content is returned whatever the finish reason.
C20_OnlyEmptinessIsFatal ==
    call.fn = "generate" =>
        LET r == call.response
            empty == r.raises \/ r.content = None \/ Blank(Val(r.content))
        IN /\ call.result.ok <=> ~empty
           /\ ~empty => call.result.val = Val(r.content)

C20_Witness ==
    /\ call.fn = "generate"
    /\ call.response = Returned("length", Some(<<"{", "analysis">>))
    /\ call.result = Ok(<<"{", "analysis">>)


\* C21: the parser returns the same record for a document wrapped in a code
\* fence, a document followed by prose and a document surrounded by prose, and
\* it raises only when the whole text, the first document of the text, the
\* text without its fence and the first balanced brace block all failed
FencedText ==
    /\ call.leading = << >> /\ call.trailing = << >>
    /\ call.opening # << >> /\ call.closing # << >>
TrailingProseText ==
    /\ call.leading = << >> /\ call.opening = << >> /\ call.closing = << >>
    /\ call.trailing # << >>
ProseAroundText ==
    /\ call.leading \notin { << >>, << " " >> } /\ call.trailing # << >>
    /\ call.opening = << >> /\ call.closing = << >>
C21_ParserTolerance ==
    (call.fn = "parse_json" /\ call.body \in Documents) =>
        /\ (FencedText \/ TrailingProseText \/ ProseAroundText)
               => call.result = Ok(Decoded(call.body))
        /\ ~call.result.ok =>
               /\ ~json_loads(call.response_text).ok
               /\ ~raw_decode(call.response_text).ok
               /\ ~json_loads(Unfenced(call.response_text)).ok
               /\ ~BraceBlock(call.response_text).ok

\* C22: the classification of a request is the first group, in the order
\* personas, axes, matrix_cells, discussion_points, one of whose keywords the
\* request contains, and general when it contains none
GroupOrder ==
    << [type |-> "personas", keywords |-> persona_keywords],
       [type |-> "axes", keywords |-> axes_keywords],
       [type |-> "matrix_cells", keywords |-> matrix_keywords],
       [type |-> "discussion_points", keywords |-> discussion_keywords] >>
Matched(request) ==
    { g \in 1..Len(GroupOrder) : AnyKeyword(GroupOrder[g].keywords, request) }
C22_FirstGroupWins ==
    call.fn = "detect_modification_target" =>
        LET hits == Matched(call.request) IN
        IF hits = {} THEN call.result.type = "general"
        ELSE \E g \in hits : /\ \A h \in hits : g <= h
                              /\ call.result.type = GroupOrder[g].type
C22_Witness ==
    /\ call.fn = "detect_modification_target"
    /\ Matched(call.request) = {1, 2}
    /\ call.result.type = "personas"

\* C23: add_personas returns the previous axes followed by the added ones
\* (the previous axes alone when the axis update fails), the previous personas
\* followed by the new ones, and the matrix of step 4 for all those personas
\* and those axes
IsPrefix(a, b) == Len(a) <= Len(b) /\ SubSeq(b, 1, Len(a)) = a
C25_HistoryBounded ==
    /\ [](/\ Len(qa_history) <= QA_HISTORY_MAX_ITEMS
          /\ TotalChars(qa_history) <= QA_HISTORY_MAX_CHARS)
    /\ [][ last'.op = "ask" =>
             /\ UNCHANGED << job_description, step1_result, personas, axes, matrix,
                             discussion_points, modification_history, keys >>
             /\ IF last'.outcome = "ok"
                THEN LET all == Append(qa_history, [q |-> last'.question,
                                                    a |-> last'.answer]) IN
                     \E k \in 0..Len(all) : qa_history' = SubSeq(all, k + 1, Len(all))
                ELSE qa_history' = qa_history ]_vars
C25_Witness ==
    /\ last.op = "ask" /\ last.outcome = "ok"
    /\ last.dropped > 0
    /\ Len(qa_history) = QA_HISTORY_MAX_ITEMS

\* C29: after a question that was answered the history is not empty and its
\* last turn is that question with its answer
C29_LastTurnIsTheQuestion ==
    (last.op = "ask" /\ last.outcome = "ok") =>
        /\ qa_history # << >>
        /\ qa_history[Len(qa_history)] = [q |-> last.question, a |-> last.answer]

\* C30: after the reset button the session is the initial one, with every
\* key defined, and main draws the input section
C30_ResetRestartsFresh ==
    last.op = "reset" =>
        /\ last.outcome = "ok"
        /\ keys = SessionKeys
        /\ job_description = << >>
        /\ step1_result = None /\ personas = None /\ axes = None /\ matrix = None
        /\ discussion_points = None
        /\ qa_history = << >> /\ modification_history = << >>

\* C24: the merge, the resync, apply_fixes, add_personas and answer_question
\* leave the personas, axes, matrix and history handed to them as they were
C24_ArgumentsKept ==
    /\ call.fn = "apply_modifications" => call.argument = call.current_data
    /\ call.fn = "sync_matrix_companies_with_personas" => call.argument = call.matrix
    /\ call.fn = "apply_fixes" => call.argument = call.matrix
    /\ call.fn = "add_personas" => call.argument = call.current_state
    /\ call.fn = "answer_question" => call.argument = call.history

\* C28: a merge of cell updates leaves the header row, the number of rows and
\* the length of every row of the matrix as they were, whatever the indices
C28_CellMergeKeepsFrame ==
    (call.fn = "apply_modifications" /\ call.modification_type = "matrix_cells"
     /\ call.result.ok) =>
        LET old == call.current_data["matrix"]
            new == call.result.val["matrix"] IN
        /\ Len(new) = Len(old)
        /\ \A r \in 1..Len(old) : Len(new[r]) = Len(old[r])
        /\ new[1] = old[1]

\* C27: after a modification of matrix cells or of the discussion points
\* that completed, recalculation included, the matrix of the session holds
\* the value of every cell update the merge wrote, and the discussion points
\* of the session are the text of the delta
C27_EditSurvivesCycle ==
    (last.op = "modify" /\ last.outcome = "ok" /\ last.reply.ok) =>
        LET type == Get(last.reply.json, "modification_type", "general")
            delta == Get(last.reply.json, "modified_data", EmptyDict)
            m == Val(matrix) IN
        /\ (type = "discussion_points" /\ "discussion_points" \in DOMAIN delta) =>
               discussion_points = Some(delta["discussion_points"])
        /\ (type = "matrix_cells" /\ "cell_updates" \in DOMAIN delta) =>
               \A i \in 1..Len(delta["cell_updates"]) :
                  LET u == delta["cell_updates"][i] IN
                  (Truthy(u, "row_index") /\ Truthy(u, "col_index")) =>
                      /\ u["row_index"] + 1 \in 1..Len(m)
                      /\ u["col_index"] + 1 \in 1..Len(m[u["row_index"] + 1])
                      /\ m[u["row_index"] + 1][u["col_index"] + 1]
                            = Get(u, "value", PyNoneCell)

\* C26: the data a modification request returns differ from the current data
\* only in the part the request was classified as (personas, axes, matrix for
\* matrix_cells, discussion_points), whatever type the answer carries
PartOf(target) ==
    IF target = "matrix_cells" THEN {"matrix"}
    ELSE IF target = "general"
    THEN {"personas", "axes", "matrix", "discussion_points"}
    ELSE {target}
ChangedParts(old, new) ==
    { k \in {"personas", "axes", "matrix", "discussion_points"} :
        Get(new, k, None) # Get(old, k, None) }
C26_MergeFollowsClassification ==
    (call.fn = "process_modification_request" /\ call.result.ok) =>
        ChangedParts(call.current_data, call.result.val.modified_data)
            \subseteq PartOf(call.target)

=========================================================================
